---- MODULE Spec2Model ----
(***************************************************************************)
(* pdocs: the `check` command of the project-docs CLI as a state machine.  *)
(*                                                                         *)
(* One behaviour is a documentation tree (chosen in Init) and a series of  *)
(* `pdocs check` invocations against it.  Every invocation is a fresh      *)
(* process: module load (the counters of check.ts:11-15), root discovery   *)
(* and CLAUDE.md install (cli.ts:26-41), then check() (check.ts:398-425),  *)
(* one action per statement of its body.                                   *)
(***************************************************************************)
EXTENDS Integers, Sequences, FiniteSets, TLC

VARIABLES
  tree,      \* the category files and directories under docs/
  env,       \* working directory depth and the levels that hold a docs/ directory
  claudeMd,  \* docs/CLAUDE.md: "absent", "user" (someone's own text) or "template"
  tmplOk,    \* whether the bundled CLAUDE.template.md resource exists
  pc,        \* position of the running process ("idle" between invocations)
  opts,      \* options of the running invocation: verbose, checkLinks
  docsDir,   \* findDocsDir()'s result in this invocation: a level, or NoDir
  result,    \* the module-level counters of check.ts
  out,       \* lines printed by this invocation
  trace,     \* the steps of check() entered so far in this invocation
  before,    \* counters and output length when the latest step was entered
  exit,      \* process exit status (NoExit while running)
  last       \* what the previous invocation against the same tree ended with

vars == <<tree, env, claudeMd, tmplOk, pc, opts, docsDir, result, out, trace, before, exit, last>>

(***************************************************************************)
(* Bounds of the model.                                                    *)
(***************************************************************************)
MaxFiles == 2         \* files per category directory
MaxPrdFeatures == 2   \* entries of the PRD's features list
MaxDepth == 4         \* depth of the working directory below "/"

(***************************************************************************)
(* Parsed YAML values.  A value carries its JavaScript type; a mapping is  *)
(* a function from the keys present to values.                             *)
(***************************************************************************)
Str(s) == [t |-> "str", s |-> s]
Num(n) == [t |-> "num", n |-> n]
Arr(q) == [t |-> "seq", q |-> q]
Obj(m) == [t |-> "map", m |-> m]
Missing == [t |-> "missing"]
EmptyMap == << >>
Opt(k, v) == IF v = Missing THEN EmptyMap ELSE (k :> v)

\* A path of the tree: absent, a file, or a directory of files in name order.
Absent == [st |-> "absent"]
NoDataFile == [st |-> "nodata"]     \* present but unreadable, unparseable or empty
DataFile(m) == [st |-> "data", d |-> m]
Dir(files) == [st |-> "dir", files |-> files]

existsSync(p) == p.st # "absent"

\* utils.ts findYamlFiles: the .yaml/.yml files of a directory, sorted by path.
findYamlFiles(dir) == IF dir.st = "dir" THEN dir.files ELSE << >>

\* utils.ts loadYaml: the parsed mapping, or null on any read or parse failure.
loadYaml(file) == IF file.st = "data" THEN [ok |-> TRUE, d |-> file.d] ELSE [ok |-> FALSE]

getString(obj, key) ==
  IF key \in DOMAIN obj /\ obj[key].t = "str" THEN obj[key].s ELSE ""

getArray(obj, key) ==
  IF key \in DOMAIN obj /\ obj[key].t = "seq" THEN obj[key].q ELSE << >>

\* typeof parentObj === 'object' holds of mappings and of arrays; an array has no
\* string child, so only a mapping can yield a value.
getNestedString(obj, parent, child) ==
  IF parent \in DOMAIN obj /\ obj[parent].t = "map"
  THEN getString(obj[parent].m, child)
  ELSE ""

\* basename(file, '.yaml') of the i-th file of a directory.
basename(i) == CASE i = 1 -> "f1" [] i = 2 -> "f2" [] i = 3 -> "f3" [] OTHER -> "f4"

\* The strings of the model that contain the substring "[type".
HasTypePlaceholder == {"[type of user]", "[type]"}
includesType(s) == s \in HasTypePlaceholder

(***************************************************************************)
(* check.ts: the counters and the log functions.  A context c is the       *)
(* counters together with the lines printed so far.                        *)
(***************************************************************************)
Line(k, m, a, b, n) == [k |-> k, m |-> m, a |-> a, b |-> b, n |-> n]

ZeroResult == [totalChecks |-> 0, totalErrors |-> 0, totalWarnings |-> 0]

emit(c, line) == [c EXCEPT !.out = Append(@, line)]

\* Mutant: the check is counted only when it is printed.
logCheck_OnlyVerbose(c, m, a, verbose) ==
  IF verbose
  THEN emit([c EXCEPT !.result.totalChecks = @ + 1], Line("CHECK", m, a, "", 0))
  ELSE c

logCheck(c, m, a, verbose) ==
  LET c1 == [c EXCEPT !.result.totalChecks = @ + 1]
  IN IF verbose THEN emit(c1, Line("CHECK", m, a, "", 0)) ELSE c1

logPass(c, m, a, verbose) ==
  IF verbose THEN emit(c, Line("PASS", m, a, "", 0)) ELSE c

logWarn_CountsError(c, m, a, b) ==
  emit([c EXCEPT !.result.totalErrors = @ + 1], Line("WARN", m, a, b, 0))

logWarn(c, m, a, b) ==
  emit([c EXCEPT !.result.totalWarnings = @ + 1], Line("WARN", m, a, b, 0))

logError(c, m, a, hint) ==
  LET c1 == emit([c EXCEPT !.result.totalErrors = @ + 1], Line("ERROR", m, a, "", 0))
  IN IF hint # "" THEN emit(c1, Line("HINT", "template", hint, "", 0)) ELSE c1

logInfo(c, m, n, verbose) ==
  IF verbose THEN emit(c, Line("INFO", m, "", "", n)) ELSE c

header(c, name) == emit(c, Line("HEAD", name, "", "", 0))

checkFileExists(c, file, label, verbose, templateType) ==
  LET c1 == logCheck(c, "exists", label, verbose)
  IN IF existsSync(file)
     THEN [c |-> logPass(c1, "found", label, verbose), ret |-> TRUE]
     ELSE [c |-> logError(c1, "missing", label, templateType), ret |-> FALSE]

checkYamlField(c, file, field, label) ==
  IF ~existsSync(file) THEN c
  ELSE LET data == loadYaml(file)
       IN IF ~data.ok THEN c
          ELSE LET value == getString(data.d, field)
               IN IF value = "" \/ value = "\"\""
                  THEN logWarn(c, "empty", field, label)
                  ELSE c

checkPrd(c, docs, verbose) ==
  LET c0 == header(c, "prd")
      r == checkFileExists(c0, docs.prd, "prd", verbose, "product-requirements")
  IN IF ~r.ret THEN r.c
     ELSE LET c1 == checkYamlField(r.c, docs.prd, "project_name", "PRD")
              c2 == checkYamlField(c1, docs.prd, "summary", "PRD")
              c3 == checkYamlField(c2, docs.prd, "goal", "PRD")
              data == loadYaml(docs.prd)
          IN IF data.ok
             THEN LET features == getArray(data.d, "features")
                      c4 == logInfo(c3, "prd-features", Len(features), verbose)
                  IN IF Len(features) = 0
                     THEN logWarn(c4, "no-features", "", "")
                     ELSE c4
             ELSE c3

RECURSIVE flowsLoop(_, _, _, _)
flowsLoop(c, files, i, verbose) ==
  IF i > Len(files) THEN c
  ELSE LET c1 == logCheck(c, "flow", basename(i), verbose)
           data == loadYaml(files[i])
           c2 == IF data.ok /\ Len(getArray(data.d, "primary_flows")) = 0
                 THEN logWarn(c1, "no-flows", basename(i), "")
                 ELSE c1
       IN flowsLoop(c2, files, i + 1, verbose)

checkUserFlows(c, docs, verbose) ==
  LET c0 == header(c, "flows")
  IN IF ~existsSync(docs.flows)
     THEN logError(c0, "dir-missing", "user-flows", "user-flow")
     ELSE LET flowFiles == findYamlFiles(docs.flows)
              c1 == logInfo(c0, "flow-files", Len(flowFiles), verbose)
          IN IF Len(flowFiles) = 0
             THEN logWarn(c1, "no-flow-files", "", "")
             ELSE flowsLoop(c1, flowFiles, 1, verbose)

\* The forEach of checkUserStories; acc carries the context and the two tallies.
RECURSIVE storiesLoop(_, _, _)
storiesLoop(acc, files, i) ==
  IF i > Len(files) THEN acc
  ELSE LET data == loadYaml(files[i])
       IN IF ~data.ok THEN storiesLoop(acc, files, i + 1)
          ELSE LET storyId == getString(data.d, "story_id")
                   status == getString(data.d, "status")
                   asA == getNestedString(data.d, "user_story", "as_a")
                   c1 == IF asA = "" \/ asA = "\"\"" \/ includesType(asA)
                         THEN logWarn(acc.c, "story-incomplete", storyId, "")
                         ELSE acc.c
               IN storiesLoop(
                    [c |-> c1,
                     complete |-> IF status = "complete" THEN acc.complete + 1 ELSE acc.complete,
                     incomplete |-> IF status = "complete" THEN acc.incomplete ELSE acc.incomplete + 1],
                    files, i + 1)

checkUserStories(c, docs, verbose) ==
  LET c0 == header(c, "stories")
  IN IF ~existsSync(docs.stories)
     THEN logError(c0, "dir-missing", "user-stories", "user-story")
     ELSE LET storyFiles == findYamlFiles(docs.stories)
              c1 == logInfo(c0, "story-files", Len(storyFiles), verbose)
          IN IF Len(storyFiles) = 0
             THEN logWarn(c1, "no-story-files", "", "")
             ELSE LET acc == storiesLoop([c |-> c1, complete |-> 0, incomplete |-> 0], storyFiles, 1)
                      c2 == logInfo(acc.c, "stories-complete", acc.complete, verbose)
                  IN logInfo(c2, "stories-incomplete", acc.incomplete, verbose)

\* The forEach of checkFeatureSpecs.
RECURSIVE featuresLoop(_, _, _)
featuresLoop(acc, files, i) ==
  IF i > Len(files) THEN acc
  ELSE LET data == loadYaml(files[i])
       IN IF ~data.ok THEN featuresLoop(acc, files, i + 1)
          ELSE LET featureId == getString(data.d, "feature_id")
                   status == getString(data.d, "status")
                   c1 == checkYamlField(acc.c, files[i], "summary", featureId)
               IN featuresLoop(
                    [c |-> c1,
                     complete |-> IF status = "complete" THEN acc.complete + 1 ELSE acc.complete,
                     incomplete |-> IF status = "complete" THEN acc.incomplete ELSE acc.incomplete + 1],
                    files, i + 1)

checkFeatureSpecs(c, docs, verbose) ==
  LET c0 == header(c, "features")
  IN IF ~existsSync(docs.specs)
     THEN logError(c0, "dir-missing", "feature-specs", "feature-spec")
     ELSE LET featureFiles == findYamlFiles(docs.specs)
              c1 == logInfo(c0, "feature-files", Len(featureFiles), verbose)
          IN IF Len(featureFiles) = 0
             THEN logWarn(c1, "no-feature-files", "", "")
             ELSE LET acc == featuresLoop([c |-> c1, complete |-> 0, incomplete |-> 0], featureFiles, 1)
                      c2 == logInfo(acc.c, "features-complete", acc.complete, verbose)
                  IN logInfo(c2, "features-incomplete", acc.incomplete, verbose)

checkSystemDesign(c, docs, verbose) ==
  LET c0 == header(c, "system")
      r == checkFileExists(c0, docs.system, "system", verbose, "system-design")
  IN IF ~r.ret THEN r.c
     ELSE LET c1 == checkYamlField(r.c, docs.system, "goal", "System Design")
              data == loadYaml(docs.system)
          IN IF data.ok /\ getString(data.d, "tech_stack") = ""
             THEN logWarn(c1, "no-tech-stack", "", "")
             ELSE c1

\* paths ? Object.keys(paths).length : 0: the keys of a mapping, the indices of an
\* array, none for a number or a missing key.  (A string-valued paths, which counts
\* its characters, is not among the inputs of the model.)
endpointCount(d) ==
  IF "paths" \notin DOMAIN d THEN 0
  ELSE LET p == d["paths"]
       IN CASE p.t = "map" -> Cardinality(DOMAIN p.m)
            [] p.t = "seq" -> Len(p.q)
            [] OTHER -> 0

checkApiContracts(c, docs, verbose) ==
  LET c0 == header(c, "api")
      r == checkFileExists(c0, docs.api, "api", verbose, "api-contracts")
  IN IF ~r.ret THEN r.c
     ELSE LET data == loadYaml(docs.api)
          IN IF data.ok
             THEN LET c1 == logInfo(r.c, "endpoints", endpointCount(data.d), verbose)
                  IN IF endpointCount(data.d) = 0
                     THEN logWarn(c1, "no-endpoints", "", "")
                     ELSE c1
             ELSE r.c

checkDataPlan(c, docs, verbose) ==
  LET c0 == header(c, "data")
      r == checkFileExists(c0, docs.data, "data", verbose, "data-plan")
  IN IF ~r.ret THEN r.c
     ELSE LET data == loadYaml(docs.data)
          IN IF data.ok /\ Len(getArray(data.d, "data_sources")) > 0
             THEN logInfo(r.c, "data-sources", Len(getArray(data.d, "data_sources")), verbose)
             ELSE r.c

checkDesignSpec(c, docs, verbose) ==
  LET c0 == header(c, "design")
      r == checkFileExists(c0, docs.design, "design", verbose, "design-spec")
  IN IF ~r.ret THEN r.c
     ELSE checkYamlField(r.c, docs.design, "design_goals", "Design Spec")

(***************************************************************************)
(* check.ts checkCrossReferences.                                          *)
(***************************************************************************)
\* features.map(f => object ? getString(f, 'id') : '')
RECURSIVE mapFeatureIds(_)
mapFeatureIds(features) ==
  IF features = << >> THEN << >>
  ELSE LET f == Head(features)
       IN <<IF f.t = "map" THEN getString(f.m, "id") ELSE "">> \o mapFeatureIds(Tail(features))

notEmpty(id) == id # ""

prdFeatureIds(prdData) == SelectSeq(mapFeatureIds(getArray(prdData, "features")), notEmpty)

includes(seq, x) == \E i \in 1..Len(seq) : seq[i] = x

\* Mutant: any file in the directory counts as the feature's specification.
hasSpec_AnyFile(featureFiles, featureId) == Len(featureFiles) > 0

\* featureFiles.some(file => data && getString(data, 'feature_id') === featureId)
hasSpec(featureFiles, featureId) ==
  \E i \in 1..Len(featureFiles) :
    LET data == loadYaml(featureFiles[i])
    IN data.ok /\ getString(data.d, "feature_id") = featureId

RECURSIVE xrefFeaturesLoop(_, _, _, _, _)
xrefFeaturesLoop(c, featureIds, featureFiles, i, verbose) ==
  IF i > Len(featureIds) THEN c
  ELSE LET featureId == featureIds[i]
           c1 == logCheck(c, "has-spec", featureId, verbose)
           c2 == IF ~hasSpec(featureFiles, featureId)
                 THEN logWarn(c1, "no-spec", featureId, "")
                 ELSE logPass(c1, "has-spec", featureId, verbose)
       IN xrefFeaturesLoop(c2, featureIds, featureFiles, i + 1, verbose)

\* Mutant: the bracketed placeholder is exempt as well.
isPlaceholderRef_Bracketed(featureRef) == featureRef = "F-##" \/ includesType(featureRef)

\* The placeholder test of the story half: only the literal F-## is exempt.
isPlaceholderRef(featureRef) == featureRef = "F-##"

RECURSIVE xrefStoriesLoop(_, _, _, _)
xrefStoriesLoop(c, featureIds, storyFiles, i) ==
  IF i > Len(storyFiles) THEN c
  ELSE LET data == loadYaml(storyFiles[i])
       IN IF ~data.ok THEN xrefStoriesLoop(c, featureIds, storyFiles, i + 1)
          ELSE LET storyId == getString(data.d, "story_id")
                   featureRef == getString(data.d, "feature_id")
                   c1 == IF featureRef # "" /\ ~isPlaceholderRef(featureRef)
                            /\ ~includes(featureIds, featureRef)
                         THEN logWarn(c, "unknown-feature", featureRef, storyId)
                         ELSE c
               IN xrefStoriesLoop(c1, featureIds, storyFiles, i + 1)

xrefSpecHalf(c, docs, featureIds, verbose) ==
  IF existsSync(docs.specs)
  THEN xrefFeaturesLoop(c, featureIds, findYamlFiles(docs.specs), 1, verbose)
  ELSE c

xrefStoryHalf(c, docs, featureIds) ==
  IF existsSync(docs.stories)
  THEN xrefStoriesLoop(c, featureIds, findYamlFiles(docs.stories), 1)
  ELSE c

\* Mutant: a PRD that cannot be cross-referenced is an error.
checkCrossReferences_ErrOnNoPrd(c, docs, checkLinks, verbose) ==
  IF ~checkLinks THEN c
  ELSE LET c0 == header(c, "xref")
           prdData == loadYaml(docs.prd)
       IN IF ~prdData.ok THEN logError(c0, "xref-no-prd", "", "")
          ELSE LET featureIds == prdFeatureIds(prdData.d)
               IN IF Len(featureIds) = 0
                  THEN logWarn(c0, "xref-no-features", "", "")
                  ELSE xrefStoryHalf(xrefSpecHalf(c0, docs, featureIds, verbose), docs, featureIds)

checkCrossReferences(c, docs, checkLinks, verbose) ==
  IF ~checkLinks THEN c
  ELSE LET c0 == header(c, "xref")
           prdData == loadYaml(docs.prd)
       IN IF ~prdData.ok THEN logWarn(c0, "xref-no-prd", "", "")
          ELSE LET featureIds == prdFeatureIds(prdData.d)
               IN IF Len(featureIds) = 0
                  THEN logWarn(c0, "xref-no-features", "", "")
                  ELSE xrefStoryHalf(xrefSpecHalf(c0, docs, featureIds, verbose), docs, featureIds)

\* check.ts:413-421: the category checks of one run, from zeroed counters.
checkAll(docs, o) ==
  LET c0 == [result |-> ZeroResult, out |-> << >>]
      c1 == checkPrd(c0, docs, o.verbose)
      c2 == checkUserFlows(c1, docs, o.verbose)
      c3 == checkUserStories(c2, docs, o.verbose)
      c4 == checkFeatureSpecs(c3, docs, o.verbose)
      c5 == checkSystemDesign(c4, docs, o.verbose)
      c6 == checkApiContracts(c5, docs, o.verbose)
      c7 == checkDataPlan(c6, docs, o.verbose)
      c8 == checkDesignSpec(c7, docs, o.verbose)
  IN checkCrossReferences(c8, docs, o.checkLinks, o.verbose)

\* Mutant: warnings fail the run.
generateSummary_WarnFails(r) ==
  IF r.totalErrors = 0 /\ r.totalWarnings = 0 THEN 0 ELSE 1

\* check.ts generateSummary: the exit code from the counters.
generateSummary(r) ==
  IF r.totalErrors = 0 /\ r.totalWarnings = 0 THEN 0
  ELSE IF r.totalErrors = 0 THEN 0
  ELSE 1

(***************************************************************************)
(* utils.ts findDocsDir and ensureClaudeDoc.  A directory on the path from *)
(* "/" to the working directory is its depth (0 is "/"); env.docsAt holds  *)
(* the depths whose directory has a docs/ sub-directory.                   *)
(***************************************************************************)
NoDir == -1          \* findDocsDir returns null
NoExit == 0 - 1      \* the process has not exited

\* Mutant: the filesystem root is examined like every other directory.
walkUp_RootToo(currentDir, docsAt) ==
  LET A == (0..currentDir) \cap docsAt
  IN IF A = {} THEN NoDir ELSE CHOOSE d \in A : \A a \in A : a <= d

RECURSIVE walkUp(_, _)
walkUp(currentDir, docsAt) ==
  IF currentDir = 0 THEN NoDir                 \* while (currentDir !== root)
  ELSE IF currentDir \in docsAt THEN currentDir
  ELSE walkUp(currentDir - 1, docsAt)

findDocsDir(e) == walkUp(e.cwd, e.docsAt)

\* The new content of docs/CLAUDE.md and the line printed, if any.
ensureClaudeDoc(claude, templateExists, rootExists) ==
  IF claude # "absent" THEN [claude |-> claude, note |-> ""]
  ELSE IF ~templateExists THEN [claude |-> claude, note |-> "template-not-found"]
  ELSE IF rootExists THEN [claude |-> "template", note |-> "installed"]
  ELSE [claude |-> claude, note |-> "install-failed"]    \* writeFileSync throws, caught

(***************************************************************************)
(* The documentation trees of the model.                                   *)
(***************************************************************************)
SeqsUpTo(S, n) == UNION {[1..k -> S] : k \in 0..n}

Feat(id) == Obj("id" :> Str(id))

PrdFile(pn, su, go, fe) ==
  DataFile(Opt("project_name", pn) @@ Opt("summary", su) @@ Opt("goal", go) @@ Opt("features", fe))

StoryFile(sid, fid, status, asA) ==
  DataFile(Opt("story_id", sid) @@ Opt("feature_id", fid) @@ Opt("status", status)
           @@ Opt("user_story", asA))

SpecFile(fid, status, summary) ==
  DataFile(Opt("feature_id", fid) @@ Opt("status", status) @@ Opt("summary", summary))

FlowFile(primary) == DataFile(Opt("primary_flows", primary))

SystemFile(goal, stack) == DataFile(Opt("goal", goal) @@ Opt("tech_stack", stack))

AsA(s) == Obj("as_a" :> Str(s))

CleanPrd == PrdFile(Str("Foo"), Str("Foo"), Str("Foo"), Arr(<<Feat("F-01")>>))
CleanStory == StoryFile(Str("US-101"), Str("F-01"), Str("complete"), AsA("user"))
CleanSpec == SpecFile(Str("F-01"), Str("complete"), Str("done"))
CleanFlow == FlowFile(Arr(<<Str("signup")>>))
CleanSystem == SystemFile(Str("baz"), Str("node"))
CleanApi == DataFile("paths" :> Obj("/users" :> Obj("get" :> Obj("summary" :> Str("List users")))))
CleanData == DataFile("data_sources" :> Arr(<<Str("db")>>))
CleanDesign == DataFile("design_goals" :> Str("clear"))

CleanTree ==
  [prd |-> CleanPrd, flows |-> Dir(<<CleanFlow>>), stories |-> Dir(<<CleanStory>>),
   specs |-> Dir(<<CleanSpec>>), system |-> CleanSystem, api |-> CleanApi,
   data |-> CleanData, design |-> CleanDesign]

Categories == {"prd", "flows", "stories", "specs", "system", "api", "data", "design"}
DirCategories == {"flows", "stories", "specs"}

\* Every combination of present (clean) and missing categories.
PresenceTrees ==
  {[c \in Categories |-> IF c \in missing THEN Absent ELSE CleanTree[c]] :
     missing \in SUBSET Categories}

\* One category present without data (a file that does not parse; for a directory,
\* its only file), the others clean or missing one at a time.
NoDataTrees ==
  {[[CleanTree EXCEPT ![c] = IF c \in DirCategories THEN Dir(<<NoDataFile>>) ELSE NoDataFile]
      EXCEPT ![m] = IF m = c THEN @ ELSE Absent] :
     c \in Categories, m \in Categories}

FieldVals == {Missing, Str("Foo"), Str(""), Str("\"\""), Num(42)}

\* An entry of the PRD's features list: a feature, or a bare string (no id).
FeatureEntries == {Feat("F-01"), Feat("F-02"), Str("F-01")}
FeatureVals ==
  {Arr(q) : q \in SeqsUpTo(FeatureEntries, MaxPrdFeatures)} \cup {Missing, Str("none")}

PrdTrees ==
  {[CleanTree EXCEPT !.prd = PrdFile(pn, su, go, Arr(<<Feat("F-01")>>))] :
     pn \in FieldVals, su \in FieldVals, go \in FieldVals}
  \cup {[CleanTree EXCEPT !.prd = DataFile(EmptyMap)]}      \* e.g. a scalar document

XrefSpecFiles ==
  {NoDataFile} \cup {SpecFile(fid, Str("complete"), Str("done")) :
                       fid \in {Str("F-01"), Str("F-02")}}
XrefSpecDirs == {Absent} \cup {Dir(q) : q \in SeqsUpTo(XrefSpecFiles, MaxFiles)}

XrefStoryFiles ==
  {StoryFile(Str("US-101"), fid, Str("complete"), AsA("user")) :
     fid \in {Str("F-01"), Str("F-09"), Str("F-##"), Str("[type]"), Str("")}}
XrefStoryDirs == {Absent} \cup {Dir(q) : q \in SeqsUpTo(XrefStoryFiles, MaxFiles)}

XrefPrds ==
  {PrdFile(Str("Foo"), Str("bar"), Str("baz"), fe) : fe \in FeatureVals} \cup {NoDataFile, Absent}

\* The PRDs the story half is run against: one and two features, none, a list
\* without any id, a PRD without data, no PRD.
XrefStoryPrds ==
  {PrdFile(Str("Foo"), Str("bar"), Str("baz"), fe) :
     fe \in {Arr(<<Feat("F-01")>>), Arr(<<Feat("F-01"), Feat("F-02")>>), Arr(<< >>),
             Arr(<<Str("F-09")>>)}}
  \cup {NoDataFile, Absent}

XrefTrees ==
  {[CleanTree EXCEPT !.prd = p, !.specs = s] : p \in XrefPrds, s \in XrefSpecDirs}
  \cup
  {[CleanTree EXCEPT !.prd = p, !.stories = s, !.specs = f] :
     p \in XrefStoryPrds, s \in XrefStoryDirs, f \in {Dir(<<CleanSpec>>), Absent}}

FlowFiles ==
  {NoDataFile} \cup {FlowFile(p) : p \in {Missing, Arr(<< >>), Arr(<<Str("signup")>>), Str("signup")}}

StoryFiles ==
  {NoDataFile}
  \cup {StoryFile(Str("US-101"), Str("F-01"), st, AsA("user")) :
          st \in {Missing, Str("complete"), Str("in-progress")}}
  \cup {StoryFile(Str("US-102"), Str("F-01"), Str("incomplete"), a) :
          a \in {Missing, AsA(""), AsA("[type of user]"), Str("user")}}

SpecFiles ==
  {NoDataFile}
  \cup {SpecFile(Str("F-01"), st, Str("done")) :
          st \in {Missing, Str("complete"), Str("in-progress")}}
  \cup {SpecFile(Str("F-01"), Str("incomplete"), su) : su \in {Missing, Str("")}}

ContentTrees ==
  {[CleanTree EXCEPT !.flows = Dir(q)] : q \in SeqsUpTo(FlowFiles, MaxFiles)}
  \cup {[CleanTree EXCEPT !.stories = Dir(q)] : q \in SeqsUpTo(StoryFiles, MaxFiles)}
  \cup {[CleanTree EXCEPT !.specs = Dir(q)] : q \in SeqsUpTo(SpecFiles, MaxFiles)}
  \cup {[CleanTree EXCEPT !.system = SystemFile(g, s)] :
          g \in FieldVals,
          s \in {Missing, Str("node"), Str(""), Obj("frontend" :> Str("react"))}}
  \cup {[CleanTree EXCEPT !.api = DataFile(Opt("paths", p))] :
          p \in {Missing, Obj(EmptyMap), Arr(<< >>), Num(42),
                 Obj(("/users" :> Obj(EmptyMap)) @@ ("/items" :> Obj(EmptyMap)))}}
  \cup {[CleanTree EXCEPT !.data = DataFile(Opt("data_sources", p))] :
          p \in {Missing, Arr(<< >>), Arr(<<Str("db"), Str("events")>>)}}
  \cup {[CleanTree EXCEPT !.design = DataFile(Opt("design_goals", p))] :
          p \in FieldVals \cup {Arr(<<Str("clear")>>)}}

Trees == PresenceTrees \cup NoDataTrees \cup PrdTrees \cup XrefTrees \cup ContentTrees

DefaultEnv == [cwd |-> 1, docsAt |-> {1}]
Envs == {[cwd |-> d, docsAt |-> S] : d \in 0..MaxDepth, S \in SUBSET (0..MaxDepth)}

(***************************************************************************)
(* The process.                                                            *)
(***************************************************************************)
NoLast == [has |-> FALSE]

isReport(line) == line.k \in {"WARN", "ERROR"}

Init ==
  /\ \/ tree \in Trees /\ env = DefaultEnv /\ claudeMd = "absent" /\ tmplOk = TRUE
     \/ tree \in NoDataTrees /\ env = DefaultEnv
          /\ claudeMd \in {"absent", "user"} /\ tmplOk \in BOOLEAN
     \/ tree = CleanTree /\ env \in Envs /\ claudeMd = "absent" /\ tmplOk = TRUE
  /\ pc = "idle"
  /\ opts = [verbose |-> FALSE, checkLinks |-> TRUE]
  /\ docsDir = NoDir
  /\ result = ZeroResult
  /\ out = << >>
  /\ trace = << >>
  /\ before = [result |-> ZeroResult, mark |-> 0]
  /\ exit = NoExit
  /\ last = NoLast

\* Mutant: the counters survive from the previous invocation.
Invoke_KeepCounters ==
  /\ pc = "idle"
  /\ \E v \in BOOLEAN, l \in BOOLEAN : opts' = [verbose |-> v, checkLinks |-> l]
  /\ out' = << >>
  /\ trace' = << >>
  /\ before' = [result |-> result, mark |-> 0]
  /\ docsDir' = NoDir
  /\ exit' = NoExit
  /\ pc' = "discover"
  /\ UNCHANGED <<tree, env, claudeMd, tmplOk, result, last>>

\* `pdocs check [-v] [--no-links]`: a new process; loading check.ts sets the counters.
Invoke ==
  /\ pc = "idle"
  /\ \E v \in BOOLEAN, l \in BOOLEAN : opts' = [verbose |-> v, checkLinks |-> l]
  /\ result' = ZeroResult
  /\ out' = << >>
  /\ trace' = << >>
  /\ before' = [result |-> ZeroResult, mark |-> 0]
  /\ docsDir' = NoDir
  /\ exit' = NoExit
  /\ pc' = "discover"
  /\ UNCHANGED <<tree, env, claudeMd, tmplOk, last>>

\* cli.ts:27-32
Discover ==
  /\ pc = "discover"
  /\ docsDir' = findDocsDir(env)
  /\ IF findDocsDir(env) = NoDir
     THEN /\ out' = Append(out, Line("FATAL", "no-docs-dir", "", "", 0))
          /\ exit' = 1
          /\ pc' = "done"
     ELSE /\ pc' = "ensure"
          /\ UNCHANGED <<out, exit>>
  /\ UNCHANGED <<tree, env, claudeMd, tmplOk, opts, result, trace, before, last>>

\* cli.ts:34
EnsureClaude ==
  /\ pc = "ensure"
  /\ LET r == ensureClaudeDoc(claudeMd, tmplOk, docsDir \in env.docsAt)
     IN /\ claudeMd' = r.claude
        /\ out' = IF r.note = "" THEN out ELSE Append(out, Line("NOTE", r.note, "", "", 0))
  /\ pc' = "entry"
  /\ UNCHANGED <<tree, env, tmplOk, opts, docsDir, result, trace, before, exit, last>>

\* Mutant: the missing root is reported but the process does not exit.
CheckEntry_NoExit ==
  /\ pc = "entry"
  /\ IF docsDir \notin env.docsAt
     THEN LET c == logError([result |-> result, out |-> out], "root-not-found", "", "")
          IN result' = c.result /\ out' = c.out
     ELSE UNCHANGED <<result, out>>
  /\ pc' = "prd"
  /\ UNCHANGED <<tree, env, claudeMd, tmplOk, opts, docsDir, trace, before, exit, last>>

\* check.ts:408-411
CheckEntry ==
  /\ pc = "entry"
  /\ IF docsDir \notin env.docsAt
     THEN LET c == logError([result |-> result, out |-> out], "root-not-found", "", "")
          IN /\ result' = c.result
             /\ out' = c.out
             /\ exit' = 1
             /\ pc' = "done"
     ELSE /\ pc' = "prd"
          /\ UNCHANGED <<result, out, exit>>
  /\ UNCHANGED <<tree, env, claudeMd, tmplOk, opts, docsDir, trace, before, last>>

\* One statement of check.ts:413-421: the step named `name` leaves the context c.
Step(name, c, next) ==
  /\ pc = name
  /\ result' = c.result
  /\ out' = c.out
  /\ trace' = Append(trace, name)
  /\ before' = [result |-> result, mark |-> Len(out)]
  /\ pc' = next
  /\ UNCHANGED <<tree, env, claudeMd, tmplOk, opts, docsDir, exit, last>>

ctx == [result |-> result, out |-> out]

StepPrd == Step("prd", checkPrd(ctx, tree, opts.verbose), "flows")

\* Mutant: a missing flows directory ends the run.
StepFlows_Abort ==
  IF existsSync(tree.flows)
  THEN Step("flows", checkUserFlows(ctx, tree, opts.verbose), "stories")
  ELSE /\ pc = "flows"
       /\ result' = checkUserFlows(ctx, tree, opts.verbose).result
       /\ out' = checkUserFlows(ctx, tree, opts.verbose).out
       /\ trace' = Append(trace, "flows")
       /\ before' = [result |-> result, mark |-> Len(out)]
       /\ exit' = 1
       /\ pc' = "done"
       /\ UNCHANGED <<tree, env, claudeMd, tmplOk, opts, docsDir, last>>

StepFlows == Step("flows", checkUserFlows(ctx, tree, opts.verbose), "stories")
StepStories == Step("stories", checkUserStories(ctx, tree, opts.verbose), "features")
StepFeatures == Step("features", checkFeatureSpecs(ctx, tree, opts.verbose), "system")
StepSystem == Step("system", checkSystemDesign(ctx, tree, opts.verbose), "api")
StepApi == Step("api", checkApiContracts(ctx, tree, opts.verbose), "data")
StepData == Step("data", checkDataPlan(ctx, tree, opts.verbose), "design")
StepDesign == Step("design", checkDesignSpec(ctx, tree, opts.verbose), "xref")
StepXref == Step("xref", checkCrossReferences(ctx, tree, opts.checkLinks, opts.verbose), "summary")

\* check.ts:391-393: the types the failure summary offers `pdocs template` for.
AvailableTypes ==
  <<"product-requirements", "system-design", "api-contracts", "data-plan", "design-spec",
    "user-flow", "user-story", "feature-spec">>
summaryHints(r) ==
  IF r.totalErrors = 0 THEN << >>
  ELSE [i \in 1..Len(AvailableTypes) |-> Line("HINT", "available-type", AvailableTypes[i], "", 0)]

summaryLine(r) ==
  IF r.totalErrors = 0 /\ r.totalWarnings = 0 THEN "all-passed"
  ELSE IF r.totalErrors = 0 THEN "passed-with-warnings"
  ELSE "failed"

\* check.ts:423-424
StepSummary ==
  /\ pc = "summary"
  /\ out' = Append(out, Line("SUMMARY", summaryLine(result), "", "", result.totalChecks))
            \o summaryHints(result)
  /\ exit' = generateSummary(result)
  /\ trace' = Append(trace, "summary")
  /\ before' = [result |-> result, mark |-> Len(out)]
  /\ pc' = "done"
  /\ UNCHANGED <<tree, env, claudeMd, tmplOk, opts, docsDir, result, last>>

\* The process has exited; what it ended with is kept for the next invocation to be
\* compared with.
Finish ==
  /\ pc = "done"
  /\ last' = [has |-> TRUE, opts |-> opts, result |-> result, exit |-> exit,
              docsDir |-> docsDir,
              report |-> SelectSeq(out, isReport)]
  /\ pc' = "idle"
  /\ UNCHANGED <<tree, env, claudeMd, tmplOk, opts, docsDir, result, out, trace, before, exit>>

\* The environment: the discovered docs/ directory is removed by someone else after
\* discovery and before check() looks at it.  (Only in a first invocation: what a
\* later one does after a removal does not depend on the earlier result.)
EnvRemoveRoot ==
  /\ pc \in {"ensure", "entry"}
  /\ last = NoLast
  /\ docsDir \in env.docsAt
  /\ env' = [env EXCEPT !.docsAt = @ \ {docsDir}]
  /\ UNCHANGED <<tree, claudeMd, tmplOk, pc, opts, docsDir, result, out, trace, before, exit, last>>

Next ==
  \/ Invoke
  \/ Discover
  \/ EnsureClaude
  \/ CheckEntry
  \/ StepPrd
  \/ StepFlows
  \/ StepStories
  \/ StepFeatures
  \/ StepSystem
  \/ StepApi
  \/ StepData
  \/ StepDesign
  \/ StepXref
  \/ StepSummary
  \/ Finish
  \/ EnvRemoveRoot

Spec == Init /\ [][Next]_vars

TypeOK ==
  /\ pc \in {"idle", "discover", "ensure", "entry", "prd", "flows", "stories", "features",
             "system", "api", "data", "design", "xref", "summary", "done"}
  /\ result.totalChecks >= 0 /\ result.totalErrors >= 0 /\ result.totalWarnings >= 0
  /\ exit \in {NoExit, 0, 1}

(***************************************************************************)
(* Properties.                                                             *)
(***************************************************************************)
StepOrder ==
  <<"prd", "flows", "stories", "features", "system", "api", "data", "design", "xref", "summary">>

IsPrefix(p, q) == Len(p) <= Len(q) /\ SubSeq(q, 1, Len(p)) = p

\* The discovered root is there (it was there when check() looked).
RootExists == docsDir # NoDir /\ docsDir \in env.docsAt

Report == SelectSeq(out, isReport)

\* The run before this one resolved the same root, and nothing touched it since.
SameRootAsLast == last.has /\ last.docsDir = docsDir

\* The lines printed by the latest step.
LastLines == SubSeq(out, before.mark + 1, Len(out))

Count(seq, P(_)) == Len(SelectSeq(seq, P))

Entered(name) == trace # << >> /\ trace[Len(trace)] = name

\* C1: with the root present, check exits 0 exactly when the error counter is zero
\* at the end of the run, whatever the warning counter; and it exits with 0 or 1.
C1_ExitIffNoErrors ==
  (pc = "done" /\ RootExists) =>
     /\ exit \in {0, 1}
     /\ (exit = 0) <=> (result.totalErrors = 0)

C1_Witness ==
  /\ pc = "done" /\ RootExists
  /\ result.totalErrors = 0 /\ result.totalWarnings >= 2 /\ exit = 0

\* C2: the steps of a run are entered in the fixed order PRD, flows, stories,
\* feature specs, system design, API contracts, data plan, design spec,
\* cross-references, summary; a run whose root exists ends having entered them all,
\* whatever is missing; a step over a missing category prints its error and nothing
\* more of that category.
C2_AllCategoriesInOrder ==
  /\ IsPrefix(trace, StepOrder)
  /\ (pc = "done" /\ RootExists) => trace = StepOrder
  /\ \A c \in Categories :
       (Entered(IF c = "specs" THEN "features" ELSE c) /\ tree[c] = Absent) =>
          /\ result.totalErrors = before.result.totalErrors + 1
          /\ result.totalWarnings = before.result.totalWarnings
          /\ pc # "done"

C2_Witness ==
  /\ pc = "done" /\ RootExists
  /\ tree.prd = Absent /\ tree.flows = Absent /\ tree.system = Absent
  /\ trace = StepOrder
  /\ result.totalErrors = 3

\* C3: when the root is not discovered or is gone, the run exits 1 with no step
\* entered, no warning and no summary; a run ends short of the full sequence of
\* steps only then.
C3_MissingRootExitsFirst ==
  /\ ~RootExists =>
       /\ trace = << >>
       /\ result.totalWarnings = 0 /\ result.totalChecks = 0
       /\ \A i \in 1..Len(out) : out[i].k \notin {"HEAD", "WARN", "SUMMARY"}
       /\ pc = "done" => exit = 1
  /\ (pc = "done" /\ trace # StepOrder) => (~RootExists /\ exit = 1)

C3_Witness ==
  /\ pc = "done" /\ docsDir # NoDir /\ docsDir \notin env.docsAt
  /\ exit = 1 /\ result.totalErrors = 1 /\ trace = << >>

isVerboseLine(line) == line.k \in {"CHECK", "PASS", "INFO"}

\* C4: two runs against the same tree that differ in the verbose flag alone end with
\* the same three counters, the same exit status and the same warning and error
\* lines; a run without the flag prints no check, pass or info line.
C4_VerboseSameCounters ==
  /\ (pc = "done" /\ SameRootAsLast /\ last.opts.checkLinks = opts.checkLinks) =>
        /\ last.result = result
        /\ last.exit = exit
        /\ last.report = Report
  /\ ~opts.verbose => Count(out, isVerboseLine) = 0

C4_Witness ==
  /\ pc = "done" /\ SameRootAsLast /\ last.opts.checkLinks = opts.checkLinks
  /\ last.opts.verbose /\ ~opts.verbose
  /\ result.totalChecks >= 8 /\ result.totalWarnings >= 1 /\ result.totalErrors >= 1

\* C5: a run with the same options as the run before it, against the same tree,
\* ends with the same counters and exit status, also when the earlier run
\* installed CLAUDE.md.
C5_SecondRunSame ==
  (pc = "done" /\ SameRootAsLast /\ last.opts = opts) =>
     /\ last.result = result
     /\ last.exit = exit

C5_Witness ==
  /\ pc = "done" /\ SameRootAsLast /\ last.opts = opts
  /\ claudeMd = "template"
  /\ result.totalChecks >= 1 /\ result.totalWarnings >= 1 /\ result.totalErrors >= 1

\* The PRD's feature ids as the cross-reference step reads them.
PrdLoads == tree.prd.st = "data"
PrdDeclared == IF PrdLoads THEN prdFeatureIds(tree.prd.d) ELSE << >>
Occurrences(seq, x) == Cardinality({i \in 1..Len(seq) : seq[i] = x})
Declares(file, key, id) ==
  file.st = "data" /\ key \in DOMAIN file.d /\ file.d[key] = Str(id)
SpecDeclared(id) ==
  \E i \in 1..Len(findYamlFiles(tree.specs)) : Declares(findYamlFiles(tree.specs)[i], "feature_id", id)
StoriesWith(ref) ==
  Cardinality({i \in 1..Len(findYamlFiles(tree.stories)) :
                 Declares(findYamlFiles(tree.stories)[i], "feature_id", ref)})

XrefRan == Entered("xref") /\ opts.checkLinks
Warnings(m, a) ==
  Cardinality({i \in 1..Len(LastLines) :
                 LastLines[i].k = "WARN" /\ LastLines[i].m = m /\ LastLines[i].a = a})
WarningsOf(m) ==
  Cardinality({i \in 1..Len(LastLines) : LastLines[i].k = "WARN" /\ LastLines[i].m = m})
StepErrors == result.totalErrors - before.result.totalErrors
StepWarnings == result.totalWarnings - before.result.totalWarnings

\* C6 as stated: for every feature id of the PRD's list, exactly one warning naming
\* it when no feature-spec file declares it, none when one does; no error.
C6_OneWarningPerOrphan ==
  XrefRan =>
    /\ \A i \in 1..Len(PrdDeclared) :
         Warnings("no-spec", PrdDeclared[i]) = IF SpecDeclared(PrdDeclared[i]) THEN 0 ELSE 1
    /\ StepErrors = 0

\* C6: when the feature-specs directory exists, every entry of the PRD's feature
\* list whose id no feature-spec file declares adds one warning naming that id (an
\* id listed twice is warned about twice) and a declared id adds none; without the
\* directory the step emits no such warning; the step adds no error.
C6_OrphanWarnings ==
  XrefRan =>
    /\ \A i \in 1..Len(PrdDeclared) :
         Warnings("no-spec", PrdDeclared[i]) =
           IF existsSync(tree.specs) /\ ~SpecDeclared(PrdDeclared[i])
           THEN Occurrences(PrdDeclared, PrdDeclared[i]) ELSE 0
    /\ \A i \in 1..Len(LastLines) :
         LastLines[i].m = "no-spec" => includes(PrdDeclared, LastLines[i].a)
    /\ StepErrors = 0

C6_Witness ==
  /\ XrefRan
  /\ PrdDeclared = <<"F-01", "F-02">>
  /\ SpecDeclared("F-01") /\ ~SpecDeclared("F-02")
  /\ Warnings("no-spec", "F-02") = 1 /\ WarningsOf("no-spec") = 1 /\ StepErrors = 0

StoryRefs == {"F-01", "F-09", "F-##", "[type]", ""}

\* C7 as stated: whatever the PRD declares, every story whose feature_id is
\* non-empty, no placeholder (F-## or bracketed) and not a PRD feature id adds one
\* warning naming it, and every other story adds none.
C7_OneWarningPerDanglingStory ==
  XrefRan =>
    \A ref \in StoryRefs :
      Warnings("unknown-feature", ref) =
        IF ref # "" /\ ref # "F-##" /\ ~includesType(ref) /\ ~includes(PrdDeclared, ref)
        THEN StoriesWith(ref) ELSE 0

\* C7: when the PRD loads and lists at least one feature id, every story whose
\* feature_id is non-empty, is not the literal F-## and is not a PRD feature id adds
\* one warning naming it, with or without a feature-specs directory, and every
\* other story adds none; when the PRD does not load or lists no id, no story is
\* looked at.
C7_DanglingStoryWarnings ==
  XrefRan =>
    /\ \A ref \in StoryRefs :
         Warnings("unknown-feature", ref) =
           IF Len(PrdDeclared) > 0 /\ ref # "" /\ ref # "F-##" /\ ~includes(PrdDeclared, ref)
           THEN StoriesWith(ref) ELSE 0
    /\ \A i \in 1..Len(LastLines) :
         LastLines[i].m = "unknown-feature" => LastLines[i].a \in StoryRefs
    /\ Len(PrdDeclared) = 0 => StepWarnings = 1

C7_Witness ==
  /\ XrefRan /\ ~existsSync(tree.specs)
  /\ PrdDeclared = <<"F-01", "F-02">>
  /\ StoriesWith("[type]") = 1 /\ Warnings("unknown-feature", "[type]") = 1
  /\ StoriesWith("F-09") = 1 /\ Warnings("unknown-feature", "F-09") = 1

\* C8: the cross-reference step adds no error and the summary follows it; two runs
\* against the same tree, with and without --no-links, end with the same error
\* counter and exit status.
C8_LinksNeverErr ==
  /\ Entered("xref") => (StepErrors = 0 /\ pc = "summary")
  /\ (pc = "done" /\ SameRootAsLast) =>
        (last.result.totalErrors = result.totalErrors /\ last.exit = exit)

C8_Witness ==
  /\ pc = "done" /\ SameRootAsLast
  /\ ~last.opts.checkLinks /\ opts.checkLinks
  /\ result.totalWarnings > last.result.totalWarnings
  /\ result.totalChecks > last.result.totalChecks
  /\ result.totalErrors >= 1

PrdFields == {"project_name", "summary", "goal"}
PrdField(f) == IF PrdLoads /\ f \in DOMAIN tree.prd.d THEN tree.prd.d[f] ELSE Missing
FieldBad(f) == IF PrdField(f).t = "str" THEN PrdField(f).s = "" ELSE TRUE
DeclaredFeatures ==
  IF PrdField("features").t = "seq" THEN Len(PrdField("features").q) ELSE 0
SummaryEmptied ==
  [CleanTree EXCEPT !.prd = PrdFile(Str("Foo"), Str(""), Str("Foo"), Arr(<<Feat("F-01")>>))]

PrdWarnings ==
  /\ \A f \in PrdFields : (FieldBad(f) => Warnings("empty", f) = 1) /\ Warnings("empty", f) <= 1
  /\ DeclaredFeatures = 0 => WarningsOf("no-features") = 1
  /\ StepErrors = 0

\* C9: whenever the PRD file exists, each of project_name, summary and goal that is
\* missing, empty or no string adds one warning, zero declared features add one
\* more, and none adds an error; the clean tree with summary emptied ends with one
\* warning and exit 0.
C9_PrdFieldWarnings ==
  /\ (Entered("prd") /\ existsSync(tree.prd)) => PrdWarnings
  /\ (pc = "done" /\ RootExists /\ tree = CleanTree) => (result.totalWarnings = 0 /\ exit = 0)
  /\ (pc = "done" /\ RootExists /\ tree = SummaryEmptied) => (result.totalWarnings = 1 /\ exit = 0)

\* The same for a PRD that parses; a PRD that exists without data adds nothing.
PrdFieldWarningsWhenParsed ==
  /\ (Entered("prd") /\ PrdLoads) => PrdWarnings
  /\ (Entered("prd") /\ tree.prd = NoDataFile) => (StepWarnings = 0 /\ StepErrors = 0)
  /\ (pc = "done" /\ RootExists /\ tree = CleanTree) => (result.totalWarnings = 0 /\ exit = 0)
  /\ (pc = "done" /\ RootExists /\ tree = SummaryEmptied) => (result.totalWarnings = 1 /\ exit = 0)

SingleFileCategories == Categories \ DirCategories

\* The counters of a finished run are those of the category checks in sequence.
RunMatchesCheckAll ==
  (pc = "done" /\ RootExists) => result = checkAll(tree, opts).result

\* C10: for each single-file category, a run over a tree where the file is present
\* without data ends with the counters of the run over the tree without the file.
C10_NoDataAsMissing ==
  (pc = "done" /\ RootExists) =>
    \A c \in SingleFileCategories :
      tree[c] = NoDataFile => result = checkAll([tree EXCEPT ![c] = Absent], opts).result

(***************************************************************************)
(* utils.ts: the loader and the field accessors called directly.           *)
(***************************************************************************)
\* parseInt(value, 10) of the model's strings; NaN where no digit leads.
NaN == [t |-> "nan"]
parseInt(s) == CASE s = "42" -> Num(42) [] s = "7up" -> Num(7) [] OTHER -> NaN

\* utils.ts getNumber on a mapping.
getNumber(obj, key) ==
  IF key \in DOMAIN obj /\ obj[key].t = "num" THEN obj[key].n
  ELSE IF key \in DOMAIN obj /\ obj[key].t = "str" /\ parseInt(obj[key].s) # NaN
       THEN parseInt(obj[key].s).n
       ELSE 0

\* `obj[key]` with obj null or undefined: a TypeError leaves the accessor.
TypeError == [t |-> "throw"]

\* What a call accessor(loadYaml(file), ...) gives its caller.
callLoadYaml(file) == IF loadYaml(file).ok THEN Obj(loadYaml(file).d) ELSE [t |-> "null"]
callGetString(data, key) == IF ~data.ok THEN TypeError ELSE Str(getString(data.d, key))
callGetNumber(data, key) == IF ~data.ok THEN TypeError ELSE Num(getNumber(data.d, key))
callGetArray(data, key) == IF ~data.ok THEN TypeError ELSE Arr(getArray(data.d, key))
callGetNestedString(data, parent, child) ==
  IF ~data.ok THEN TypeError ELSE Str(getNestedString(data.d, parent, child))

\* The files and keys the accessors are called with.
UtilValues ==
  {Str("x"), Str(""), Str("42"), Str("7up"), Num(5), Arr(<<Str("a")>>),
   Obj("c" :> Str("y")), Obj("c" :> Num(1))}
UtilFiles == {Absent, NoDataFile, DataFile(EmptyMap)} \cup {DataFile("k" :> v) : v \in UtilValues}
UtilKeys == {"k", "other"}
Accessors == {"loadYaml", "getString", "getNumber", "getArray", "getNestedString"}

Called(f) == \E i \in 1..Len(out) : out[i].f = f

UtilInit ==
  /\ tree \in {[file |-> f] : f \in UtilFiles}
  /\ opts \in {[key |-> k, child |-> c] : k \in UtilKeys, c \in {"c", "other"}}
  /\ env = DefaultEnv /\ claudeMd = "absent" /\ tmplOk = TRUE
  /\ pc = "util" /\ docsDir = NoDir /\ result = ZeroResult
  /\ out = << >> /\ trace = << >> /\ before = [result |-> ZeroResult, mark |-> 0]
  /\ exit = NoExit /\ last = NoLast

UtilCall(f, v) ==
  /\ pc = "util" /\ ~Called(f)
  /\ out' = Append(out, [f |-> f, v |-> v])
  /\ UNCHANGED <<tree, env, claudeMd, tmplOk, pc, opts, docsDir, result, trace, before, exit, last>>

CallLoadYaml == UtilCall("loadYaml", callLoadYaml(tree.file))
CallGetString == UtilCall("getString", callGetString(loadYaml(tree.file), opts.key))
CallGetNumber == UtilCall("getNumber", callGetNumber(loadYaml(tree.file), opts.key))
CallGetArray == UtilCall("getArray", callGetArray(loadYaml(tree.file), opts.key))
CallGetNestedString ==
  UtilCall("getNestedString", callGetNestedString(loadYaml(tree.file), opts.key, opts.child))

UtilNext ==
  \/ CallLoadYaml
  \/ CallGetString
  \/ CallGetNumber
  \/ CallGetArray
  \/ CallGetNestedString

UtilSpec == UtilInit /\ [][UtilNext]_vars

ZeroValue(f) ==
  CASE f = "loadYaml" -> [t |-> "null"]
    [] f = "getString" -> Str("")
    [] f = "getNumber" -> Num(0)
    [] f = "getArray" -> Arr(<< >>)
    [] OTHER -> Str("")

\* C11: for a file that fails to read or parse the loader returns the sentinel, and
\* every accessor applied to that sentinel returns its zero value: "", 0, the
\* empty sequence, "".
C11_SentinelZeroValues ==
  ~loadYaml(tree.file).ok =>
     \A i \in 1..Len(out) : out[i].v = ZeroValue(out[i].f)

\* What holds instead: the loader returns the sentinel without raising, every
\* accessor raises on the sentinel, and none raises on a parsed mapping.
AccessorsRaiseOnSentinel ==
  \A i \in 1..Len(out) :
    IF out[i].f = "loadYaml" THEN out[i].v # TypeError
    ELSE (out[i].v = TypeError) <=> ~loadYaml(tree.file).ok

(***************************************************************************)
(* list.ts: the query layer.                                               *)
(***************************************************************************)
\* a.localeCompare(b) over the strings the model sorts: the position of each in the
\* collation order (punctuation before letters, letters without regard to case).
Collation ==
  <<"", "Alpha", "Beta", "blocked", "complete", "f1", "f2", "f3", "f4", "Gamma",
    "in-progress", "incomplete">>
collationKey(str) == CHOOSE i \in 1..Len(Collation) : Collation[i] = str
localeCompare(a, b) == collationKey(a) - collationKey(b)

\* Array.prototype.sort with a comparator: stable, so an element goes behind the
\* elements that do not compare greater.
\* The comparators of listFeatures (list.ts:60, 62).
compareBy(sortBy, a, b) ==
  IF sortBy = "title" THEN localeCompare(a.title, b.title)
  ELSE localeCompare(a.status, b.status)

RECURSIVE insertSorted(_, _, _)
insertSorted(sorted, x, sortBy) ==
  IF sorted = << >> THEN <<x>>
  ELSE IF compareBy(sortBy, Head(sorted), x) <= 0
       THEN <<Head(sorted)>> \o insertSorted(Tail(sorted), x, sortBy)
       ELSE <<x>> \o sorted

RECURSIVE sortWith(_, _)
sortWith(seq, sortBy) ==
  IF seq = << >> THEN << >>
  ELSE insertSorted(sortWith(SubSeq(seq, 1, Len(seq) - 1), sortBy), seq[Len(seq)], sortBy)

\* title.replace(/^Technical Specification - /, '')
stripSpecPrefix(title) ==
  IF title = "Technical Specification - Beta" THEN "Beta" ELSE title

orElse(str, default) == IF str = "" THEN default ELSE str

\* list.ts parseFeature of the i-th file of the directory; null when it has no data.
parseFeature(file, i) ==
  LET data == loadYaml(file)
  IN IF ~data.ok THEN [ok |-> FALSE]
     ELSE [ok |-> TRUE,
           file |-> i,
           feature_id |-> getString(data.d, "feature_id"),
           title |-> stripSpecPrefix(orElse(getString(data.d, "title"), basename(i))),
           status |-> orElse(getString(data.d, "status"), "incomplete"),
           summary |-> getString(data.d, "summary"),
           progress |-> IF "implementation_status" \in DOMAIN data.d
                           /\ data.d["implementation_status"].t = "map"
                        THEN getNumber(data.d["implementation_status"].m, "progress")
                        ELSE 0]

\* list.ts parseStory.
parseStory(file, i) ==
  LET data == loadYaml(file)
  IN IF ~data.ok THEN [ok |-> FALSE]
     ELSE [ok |-> TRUE,
           file |-> i,
           story_id |-> getString(data.d, "story_id"),
           title |-> orElse(getString(data.d, "title"), basename(i)),
           feature_id |-> getString(data.d, "feature_id"),
           status |-> orElse(getString(data.d, "status"), "incomplete")]

\* files.map(parseFeature).filter(f => f !== null)
RECURSIVE parsedFeatures(_, _)
parsedFeatures(files, i) ==
  IF i > Len(files) THEN << >>
  ELSE (IF parseFeature(files[i], i).ok THEN <<parseFeature(files[i], i)>> ELSE << >>)
       \o parsedFeatures(files, i + 1)

\* files.map(parseStory).filter(s => s !== null)
RECURSIVE parsedStories(_, _)
parsedStories(files, i) ==
  IF i > Len(files) THEN << >>
  ELSE (IF parseStory(files[i], i).ok THEN <<parseStory(files[i], i)>> ELSE << >>)
       \o parsedStories(files, i + 1)

\* Mutant: the default view shows only what is marked incomplete.
notComplete_OnlyIncomplete(r) == r.status = "incomplete"

\* list.ts:52, 263
notComplete(r) == r.status # "complete"
Row(r) == [k |-> "ROW", r |-> r]
Rows(records) == [i \in 1..Len(records) |-> Row(records[i])]
Msg(m, n) == Line("MSG", m, "", "", n)
countStatus(records, status) == Cardinality({i \in 1..Len(records) : records[i].status = status})

\* list.ts:65-79
featureStats(features) ==
  [k |-> "STATS",
   total |-> Len(features),
   complete |-> countStatus(features, "complete"),
   inProgress |-> countStatus(features, "in-progress"),
   incomplete |-> countStatus(features, "incomplete")]

selectFeatures_StatusFirst(parsed, o) ==
  LET kept == IF o.filterStatus # ""
              THEN SelectSeq(parsed, LAMBDA f : f.status = o.filterStatus)
              ELSE IF ~o.showAll THEN SelectSeq(parsed, notComplete) ELSE parsed
  IN IF o.sortBy \in {"title", "status"} THEN sortWith(kept, o.sortBy) ELSE kept

\* list.ts:51-63: the default filter, the status filter, the sort.
selectFeatures(parsed, o) ==
  LET shown == IF ~o.showAll THEN SelectSeq(parsed, notComplete) ELSE parsed
      kept == IF o.filterStatus # ""
              THEN SelectSeq(shown, LAMBDA f : f.status = o.filterStatus)
              ELSE shown
  IN IF o.sortBy \in {"title", "status"} THEN sortWith(kept, o.sortBy) ELSE kept

\* list.ts listFeatures: the lines printed; it returns normally in every case.
listFeatures(docs, o) ==
  LET files == findYamlFiles(docs.specs)
      features == selectFeatures(parsedFeatures(files, 1), o)
  IN IF Len(files) = 0 THEN <<Msg("no-files", 0)>>
     ELSE IF o.format = "stats" THEN <<featureStats(features)>>
     ELSE IF o.format = "json" THEN Rows(features)
     ELSE <<Msg("table-head", 0)>> \o Rows(features) \o <<Msg("found", Len(features))>>

\* list.ts:262-272
selectStories(parsed, o) ==
  LET shown == IF ~o.showAll THEN SelectSeq(parsed, notComplete) ELSE parsed
      kept == IF o.filterStatus # ""
              THEN SelectSeq(shown, LAMBDA f : f.status = o.filterStatus)
              ELSE shown
  IN IF o.filterFeature # ""
     THEN SelectSeq(kept, LAMBDA f : f.feature_id = o.filterFeature)
     ELSE kept

\* list.ts listStories.
listStories(docs, o) ==
  LET files == findYamlFiles(docs.stories)
      stories == selectStories(parsedStories(files, 1), o)
  IN IF Len(files) = 0 THEN <<Msg("no-files", 0)>>
     ELSE IF o.format \in {"json", "ids"} THEN Rows(stories)
     ELSE <<Msg("table-head", 0)>> \o Rows(stories) \o <<Msg("found", Len(stories))>>

\* Strings that list.ts takes apart (methods, paths, personas) are sequences of
\* characters.  toUpperCase and toLowerCase map each character.
LowerChars == <<"g", "e", "t", "p", "o", "s", "u", "a", "d", "i">>
UpperChars == <<"G", "E", "T", "P", "O", "S", "U", "A", "D", "I">>
upperChar(ch) ==
  IF \E i \in 1..Len(LowerChars) : LowerChars[i] = ch
  THEN UpperChars[CHOOSE i \in 1..Len(LowerChars) : LowerChars[i] = ch]
  ELSE ch
lowerChar(ch) ==
  IF \E i \in 1..Len(UpperChars) : UpperChars[i] = ch
  THEN LowerChars[CHOOSE i \in 1..Len(UpperChars) : UpperChars[i] = ch]
  ELSE ch
toUpperCase(w) == [i \in 1..Len(w) |-> upperChar(w[i])]
toLowerCase(w) == [i \in 1..Len(w) |-> lowerChar(w[i])]

\* String.prototype.includes
strIncludes(w, sub) ==
  \E i \in 0..(Len(w) - Len(sub)) : SubSeq(w, i + 1, i + Len(sub)) = sub

\* A YAML mapping whose entries list.ts walks in order (Object.entries), and null.
Ent(q) == [t |-> "ent", e |-> q]
Null == [t |-> "null"]
Threw == <<[k |-> "THROW"]>>

\* The inner loop of parseApiEndpoints (list.ts:138-142) over one path's methods;
\* getString on null details raises.
RECURSIVE methodEndpoints(_, _, _)
methodEndpoints(path, methods, j) ==
  IF j > Len(methods) THEN << >>
  ELSE IF methods[j].v = Null THEN Threw
  ELSE LET rest == methodEndpoints(path, methods, j + 1)
       IN IF rest = Threw THEN Threw
          ELSE <<[method |-> toUpperCase(methods[j].k), path |-> path,
                  summary |-> orElse(getString(methods[j].v.m, "summary"), "No description")]>>
               \o rest

\* The outer loop (list.ts:137); Object.entries(null) raises.
RECURSIVE pathEndpoints(_, _)
pathEndpoints(paths, i) ==
  IF i > Len(paths) THEN << >>
  ELSE IF paths[i].v = Null THEN Threw
  ELSE LET here == methodEndpoints(paths[i].k, paths[i].v.e, 1)
           rest == pathEndpoints(paths, i + 1)
       IN IF here = Threw \/ rest = Threw THEN Threw ELSE here \o rest

\* list.ts parseApiEndpoints
parseApiEndpoints(d) ==
  IF "paths" \notin DOMAIN d \/ d["paths"].t # "ent" THEN << >>
  ELSE pathEndpoints(d["paths"].e, 1)

\* Mutant: the path filter ignores case.
pathMatches_NoCase(ep, filterPath) ==
  strIncludes(toLowerCase(ep.path), toLowerCase(filterPath))

\* list.ts:171
pathMatches(ep, filterPath) == strIncludes(ep.path, filterPath)

\* list.ts:167
methodMatches(ep, filterMethod) == ep.method = toUpperCase(filterMethod)

\* list.ts:166-172
selectEndpoints(endpoints, o) ==
  LET byMethod == IF o.filterMethod # << >>
                  THEN SelectSeq(endpoints, LAMBDA ep : methodMatches(ep, o.filterMethod))
                  ELSE endpoints
  IN IF o.filterPath # << >>
     THEN SelectSeq(byMethod, LAMBDA ep : pathMatches(ep, o.filterPath))
     ELSE byMethod

\* list.ts listApis: the lines printed and the exit status (0: returned).
listApis(docs, o) ==
  LET data == loadYaml(docs.api)
  IN IF ~data.ok THEN [out |-> <<Msg("api-not-found", 0)>>, exit |-> 1]
     ELSE IF parseApiEndpoints(data.d) = Threw THEN [out |-> Threw, exit |-> 1]
     ELSE LET endpoints == selectEndpoints(parseApiEndpoints(data.d), o)
          IN [out |-> IF o.format \in {"json", "curl", "markdown"} THEN Rows(endpoints)
                      ELSE <<Msg("table-head", 0)>> \o Rows(endpoints)
                           \o <<Msg("found", Len(endpoints))>>,
              exit |-> 0]

\* String(p) of a persona entry.
stringOf(v) == IF v.t = "str" THEN v.s ELSE IF v.t = "num" THEN <<"7">> ELSE <<"o">>

\* list.ts parseFlow
parseFlow(file, i) ==
  LET data == loadYaml(file)
  IN IF ~data.ok THEN [ok |-> FALSE]
     ELSE [ok |-> TRUE,
           file |-> i,
           title |-> IF getString(data.d, "title") \in {"", "User Flows"}
                     THEN basename(i) ELSE getString(data.d, "title"),
           key_personas |-> [j \in 1..Len(getArray(data.d, "key_personas")) |->
                               stringOf(getArray(data.d, "key_personas")[j])],
           primary_count |-> Len(getArray(data.d, "primary_flows")),
           secondary_count |-> Len(getArray(data.d, "secondary_flows"))]

RECURSIVE parsedFlows(_, _)
parsedFlows(files, i) ==
  IF i > Len(files) THEN << >>
  ELSE (IF parseFlow(files[i], i).ok THEN <<parseFlow(files[i], i)>> ELSE << >>)
       \o parsedFlows(files, i + 1)

\* list.ts:355-357
personaMatches(f, filterPersona) ==
  \E j \in 1..Len(f.key_personas) :
    strIncludes(toLowerCase(f.key_personas[j]), toLowerCase(filterPersona))

\* list.ts listFlows
listFlows(docs, o) ==
  LET files == findYamlFiles(docs.flows)
      parsed == parsedFlows(files, 1)
      flows == IF o.filterPersona # << >>
               THEN SelectSeq(parsed, LAMBDA f : personaMatches(f, o.filterPersona))
               ELSE parsed
  IN IF Len(files) = 0 THEN <<Msg("no-files", 0)>>
     ELSE IF o.format = "json" THEN Rows(flows)
     ELSE <<Msg("table-head", 0)>> \o Rows(flows) \o <<Msg("found", Len(flows))>>

ValidTypes == {"features", "apis", "stories", "flows"}

\* Mutant: a category without its directory ends the process with status 1.
list_MissingDirFails(docs, type, o) ==
  CASE type = "features" ->
         [out |-> listFeatures(docs, o), exit |-> IF existsSync(docs.specs) THEN 0 ELSE 1]
    [] type = "apis" -> listApis(docs, o)
    [] type = "stories" ->
         [out |-> listStories(docs, o), exit |-> IF existsSync(docs.stories) THEN 0 ELSE 1]
    [] type = "flows" ->
         [out |-> listFlows(docs, o), exit |-> IF existsSync(docs.flows) THEN 0 ELSE 1]
    [] OTHER -> [out |-> <<Msg("unknown-type", 0)>>, exit |-> 1]

\* list.ts list: the switch over the type.
list(docs, type, o) ==
  CASE type = "features" -> [out |-> listFeatures(docs, o), exit |-> 0]
    [] type = "apis" -> listApis(docs, o)
    [] type = "stories" -> [out |-> listStories(docs, o), exit |-> 0]
    [] type = "flows" -> [out |-> listFlows(docs, o), exit |-> 0]
    [] OTHER -> [out |-> <<Msg("unknown-type", 0)>>, exit |-> 1]

\* The trees `pdocs list` is run against.  (The API files of the model have no
\* `paths` key or a mapping under it.)
MaxPaths == 2

ListFile(idKey, id, title, status, fid) ==
  DataFile(Opt(idKey, id) @@ Opt("title", title) @@ Opt("status", status)
           @@ (IF idKey = "feature_id" THEN EmptyMap ELSE Opt("feature_id", fid)))

ListFeatureFiles ==
  {NoDataFile,
   ListFile("feature_id", Str("F-02"), Str("Alpha"), Str("complete"), Missing),
   ListFile("feature_id", Str("F-01"), Str("Beta"), Str("in-progress"), Missing),
   ListFile("feature_id", Str("F-03"), Str("Gamma"), Missing, Missing),
   ListFile("feature_id", Str("F-01"), Str("Technical Specification - Beta"), Str("blocked"), Missing),
   ListFile("feature_id", Str("F-02"), Missing, Str("incomplete"), Missing)}

ListStoryFiles ==
  {NoDataFile,
   ListFile("story_id", Str("US-101"), Str("Alpha"), Str("complete"), Str("F-01")),
   ListFile("story_id", Str("US-102"), Str("Beta"), Missing, Str("F-01")),
   ListFile("story_id", Str("US-103"), Str("Gamma"), Str("in-progress"), Str("F-02")),
   ListFile("story_id", Str("US-104"), Missing, Str("complete"), Str("F-02"))}

ListFlowFiles ==
  {NoDataFile} \cup
  {DataFile(Opt("title", Str("User Flows")) @@ Opt("key_personas", p)) :
     p \in {Missing, Arr(<<Str(<<"A", "d">>)>>), Arr(<<Str(<<"u", "s">>), Str(<<"A", "D">>)>>),
            Arr(<<Num(7)>>)}}

Details == Obj("summary" :> Str("Alpha"))
MethodLists ==
  {<<[k |-> <<"g", "e", "t">>, v |-> Details]>>,
   <<[k |-> <<"P", "O", "S", "T">>, v |-> Obj(EmptyMap)]>>,
   <<[k |-> <<"g", "e", "t">>, v |-> Details], [k |-> <<"P", "O", "S", "T">>, v |-> Details]>>}
PathEntries ==
  {[k |-> path, v |-> Ent(ms)] : path \in {<<"/", "u", "s">>, <<"/", "U", "s">>}, ms \in MethodLists}
  \cup {[k |-> <<"/", "u", "s">>, v |-> Null],
        [k |-> <<"/", "u", "s">>, v |-> Ent(<<[k |-> <<"g", "e", "t">>, v |-> Null]>>)]}
ListApiFiles ==
  {Absent, NoDataFile, DataFile(EmptyMap)}
  \cup {DataFile("paths" :> Ent(q)) : q \in SeqsUpTo(PathEntries, MaxPaths)}

CleanListTree ==
  [specs |-> Dir(<<ListFile("feature_id", Str("F-01"), Str("Beta"), Str("in-progress"), Missing)>>),
   stories |-> Dir(<<ListFile("story_id", Str("US-102"), Str("Beta"), Missing, Str("F-01"))>>),
   flows |-> Dir(<<DataFile("key_personas" :> Arr(<<Str(<<"A", "d">>)>>))>>),
   api |-> DataFile("paths" :> Ent(<< >>))]

ListTrees ==
  {[CleanListTree EXCEPT !.specs = d] :
     d \in {Absent} \cup {Dir(q) : q \in SeqsUpTo(ListFeatureFiles, MaxFiles)}}
  \cup {[CleanListTree EXCEPT !.stories = d] :
     d \in {Absent} \cup {Dir(q) : q \in SeqsUpTo(ListStoryFiles, MaxFiles)}}
  \cup {[CleanListTree EXCEPT !.flows = d] :
     d \in {Absent} \cup {Dir(q) : q \in SeqsUpTo(ListFlowFiles, MaxFiles)}}
  \cup {[CleanListTree EXCEPT !.api = f] : f \in ListApiFiles}

\* The arguments of `pdocs list`: the options list() hands to the function of the
\* type, the others at their defaults.  type "" is the argument left out.
DefaultListOpts ==
  [type |-> "", showAll |-> FALSE, format |-> "summary", filterStatus |-> "",
   sortBy |-> "id", filterMethod |-> << >>, filterPath |-> << >>, filterFeature |-> "",
   filterPersona |-> << >>]
StatusFilters == {"", "complete", "incomplete"}
ListArgs ==
  {[DefaultListOpts EXCEPT !.type = "features", !.showAll = a, !.format = f,
                           !.filterStatus = st, !.sortBy = so] :
     a \in BOOLEAN, f \in {"summary", "stats", "json"}, st \in StatusFilters,
     so \in {"id", "title", "status"}}
  \cup {[DefaultListOpts EXCEPT !.type = "stories", !.showAll = a, !.format = f,
                                !.filterStatus = st, !.filterFeature = fe] :
          a \in BOOLEAN, f \in {"summary", "ids"}, st \in StatusFilters, fe \in {"", "F-01"}}
  \cup {[DefaultListOpts EXCEPT !.type = "apis", !.format = f, !.filterMethod = m,
                                !.filterPath = pa] :
          f \in {"summary", "json"},
          m \in {<< >>, <<"g", "e", "t">>, <<"G", "E", "T">>, <<"p", "o", "s", "t">>},
          pa \in {<< >>, <<"u", "s">>, <<"U">>, <<"/", "i">>}}
  \cup {[DefaultListOpts EXCEPT !.type = "flows", !.format = f, !.filterPersona = pe] :
          f \in {"summary", "json"}, pe \in {<< >>, <<"a", "d">>, <<"A">>, <<"7">>}}
  \cup {[DefaultListOpts EXCEPT !.type = ty] : ty \in {"", "feature"}}

ListInit ==
  /\ \/ tree \in ListTrees /\ env = DefaultEnv
     \/ tree = CleanListTree /\ env = [cwd |-> 1, docsAt |-> {}]
  /\ claudeMd = "absent" /\ tmplOk = TRUE
  /\ pc = "idle" /\ opts = DefaultListOpts /\ docsDir = NoDir /\ result = ZeroResult
  /\ out = << >> /\ trace = << >> /\ before = [result |-> ZeroResult, mark |-> 0]
  /\ exit = NoExit /\ last = NoLast

\* `pdocs list [type] [options]`; the required argument left out ends the process
\* before the action runs (cli.ts:45).
ListInvoke ==
  /\ pc = "idle" /\ exit = NoExit
  /\ \E o \in ListArgs :
       /\ opts' = o
       /\ IF o.type = ""
          THEN out' = <<Msg("missing-argument", 0)>> /\ exit' = 1 /\ pc' = "done"
          ELSE out' = << >> /\ exit' = NoExit /\ pc' = "discover"
  /\ UNCHANGED <<tree, env, claudeMd, tmplOk, docsDir, result, trace, before, last>>

\* cli.ts:57-62
ListValidate ==
  /\ pc = "entry"
  /\ IF opts.type \notin ValidTypes
     THEN out' = Append(out, Msg("invalid-type", 0)) /\ exit' = 1 /\ pc' = "done"
     ELSE pc' = "list" /\ UNCHANGED <<out, exit>>
  /\ UNCHANGED <<tree, env, claudeMd, tmplOk, opts, docsDir, result, trace, before, last>>

\* cli.ts:64: list() runs and the process ends.
ListRun ==
  /\ pc = "list"
  /\ out' = out \o list(tree, opts.type, opts).out
  /\ exit' = list(tree, opts.type, opts).exit
  /\ trace' = Append(trace, "list")
  /\ pc' = "done"
  /\ UNCHANGED <<tree, env, claudeMd, tmplOk, opts, docsDir, result, before, last>>

ListNext ==
  \/ ListInvoke
  \/ Discover
  \/ EnsureClaude
  \/ ListValidate
  \/ ListRun

ListSpec == ListInit /\ [][ListNext]_vars

(***************************************************************************)
(* Properties of `pdocs list`.                                             *)
(***************************************************************************)
ListDone == pc = "done" /\ trace = <<"list">>
isRow(line) == line.k = "ROW"
ListedRows == SelectSeq(out, isRow)
Listed == [i \in 1..Len(ListedRows) |-> ListedRows[i].r]
ListedFiles == {Listed[i].file : i \in 1..Len(Listed)}

\* The directory a type lists, its loaded files, and a file's status as recorded.
ListedDir == IF opts.type = "features" THEN tree.specs ELSE tree.stories
LoadedFiles == {i \in 1..Len(findYamlFiles(ListedDir)) : findYamlFiles(ListedDir)[i].st = "data"}
FieldOf(i, key) ==
  LET d == findYamlFiles(ListedDir)[i].d
  IN IF key \in DOMAIN d /\ d[key].t = "str" THEN d[key].s ELSE ""
StatusOf(i) == IF FieldOf(i, "status") = "" THEN "incomplete" ELSE FieldOf(i, "status")
Unfiltered == opts.filterStatus = "" /\ opts.filterFeature = ""

\* C12: `list features` and `list stories` without another filter list each loaded
\* record whose status is not complete exactly once (a record without status has
\* status incomplete), and with --all each loaded record exactly once.
C12_DefaultHidesComplete ==
  (ListDone /\ opts.type \in {"features", "stories"} /\ Unfiltered /\ opts.format # "stats") =>
     /\ ListedFiles = {i \in LoadedFiles : opts.showAll \/ StatusOf(i) # "complete"}
     /\ Len(Listed) = Cardinality(ListedFiles)
     /\ \A j \in 1..Len(Listed) : Listed[j].status = StatusOf(Listed[j].file)

C12_Witness ==
  /\ ListDone /\ opts.type = "features" /\ Unfiltered /\ opts.format = "summary"
  /\ ~opts.showAll
  /\ Cardinality(LoadedFiles) = 2
  /\ \E i \in LoadedFiles : StatusOf(i) = "complete"
  /\ \E i \in LoadedFiles : FieldOf(i, "status") = ""
  /\ Len(Listed) = 1 /\ Listed[1].status = "incomplete"

\* What the filters are applied to, for the endpoint and flow lists.
AllEndpoints == parseApiEndpoints(tree.api.d)
ApisListed == ListDone /\ opts.type = "apis" /\ exit = 0
FlowsListed == ListDone /\ opts.type = "flows"
AllFlows == parsedFlows(findYamlFiles(tree.flows), 1)
PersonaKept(f) ==
  opts.filterPersona = << >>
  \/ \E j \in 1..Len(f.key_personas) :
       strIncludes(toLowerCase(f.key_personas[j]), toLowerCase(opts.filterPersona))
RecordFiltersExact ==
  (ListDone /\ opts.type \in {"features", "stories"} /\ opts.format # "stats") =>
     ListedFiles = {i \in LoadedFiles :
                      /\ opts.showAll \/ StatusOf(i) # "complete"
                      /\ opts.filterStatus = "" \/ StatusOf(i) = opts.filterStatus
                      /\ opts.filterFeature = "" \/ FieldOf(i, "feature_id") = opts.filterFeature}

\* C13 as stated: status and feature filters keep the records whose field equals
\* the value; the method filter keeps the endpoints whose method equals the value;
\* the path filter keeps those whose path contains the value without regard to
\* case; the persona filter keeps the flows with a persona containing the value
\* without regard to case.
C13_FiltersAsStated ==
  /\ RecordFiltersExact
  /\ ApisListed =>
       Listed = SelectSeq(AllEndpoints, LAMBDA ep :
                  /\ opts.filterMethod = << >> \/ ep.method = opts.filterMethod
                  /\ opts.filterPath = << >>
                       \/ strIncludes(toLowerCase(ep.path), toLowerCase(opts.filterPath)))
  /\ FlowsListed => Listed = SelectSeq(AllFlows, PersonaKept)

\* C13: status and feature filters keep the records whose field equals the value;
\* the method filter keeps the endpoints whose method equals the value when case is
\* disregarded; the path filter keeps those whose path contains the value as
\* written (case matters); the persona filter keeps the flows with a persona
\* containing the value without regard to case.
C13_FilterMatching ==
  /\ RecordFiltersExact
  /\ ApisListed =>
       Listed = SelectSeq(AllEndpoints, LAMBDA ep :
                  /\ opts.filterMethod = << >>
                       \/ toLowerCase(ep.method) = toLowerCase(opts.filterMethod)
                  /\ opts.filterPath = << >>
                       \/ \E i \in 1..Len(ep.path) :
                            i + Len(opts.filterPath) - 1 <= Len(ep.path)
                            /\ \A j \in 1..Len(opts.filterPath) :
                                 ep.path[i + j - 1] = opts.filterPath[j])
  /\ FlowsListed => Listed = SelectSeq(AllFlows, PersonaKept)

C13_Witness ==
  /\ ApisListed
  /\ opts.filterMethod = <<"g", "e", "t">> /\ opts.filterPath = <<"U">>
  /\ \E i \in 1..Len(AllEndpoints) :
       AllEndpoints[i].path = <<"/", "u", "s">> /\ AllEndpoints[i].method = <<"G", "E", "T">>
  /\ Len(Listed) = 1 /\ Listed[1].path = <<"/", "U", "s">>

\* The sources of the categories, and what stops `list apis` half-way.
SourceMissing ==
  \/ opts.type = "features" /\ ~existsSync(tree.specs)
  \/ opts.type = "stories" /\ ~existsSync(tree.stories)
  \/ opts.type = "flows" /\ ~existsSync(tree.flows)
  \/ opts.type = "apis" /\ tree.api.st # "data"
HasNullEntry ==
  /\ tree.api.st = "data" /\ "paths" \in DOMAIN tree.api.d
  /\ \E i \in 1..Len(tree.api.d["paths"].e) :
       LET v == tree.api.d["paths"].e[i].v
       IN v = Null \/ \E j \in 1..Len(v.e) : v.e[j].v = Null

\* C14 as stated: with the root found, list exits 1 when the type is missing or
\* invalid or the source of the category is missing, and 0 otherwise.
C14_ExitAsStated ==
  (pc = "done" /\ (docsDir # NoDir \/ opts.type = "")
     /\ ~(opts.type = "apis" /\ HasNullEntry)) =>
     (exit = 1 <=> (opts.type \notin ValidTypes \/ SourceMissing))

\* C14: list exits 1 when the type is missing or invalid, when no root is found,
\* and for apis when the API file gives no data or holds a null path or method
\* entry; it exits 0 otherwise, also when the directory of features, stories or
\* flows is missing.
C14_ListExit ==
  pc = "done" =>
     /\ exit \in {0, 1}
     /\ exit = 1 <=> \/ opts.type \notin ValidTypes
                     \/ docsDir = NoDir
                     \/ opts.type = "apis" /\ (tree.api.st # "data" \/ HasNullEntry)

C14_Witness ==
  /\ ListDone /\ opts.type = "features" /\ tree.specs = Absent
  /\ exit = 0 /\ Len(out) = 2


(***************************************************************************)
(* Root discovery.                                                         *)
(***************************************************************************)
\* The directories on the path from the working directory up to the filesystem
\* root (level 0), the root included.
UpwardPath(e) == 0..e.cwd

\* The nearest directory of the upward path that holds a docs/ directory.
RECURSIVE maxOf(_)
maxOf(S) ==
  IF S = {} THEN NoDir
  ELSE LET x == CHOOSE y \in S : TRUE
           m == maxOf(S \ {x})
       IN IF x > m THEN x ELSE m

Nearest(e) == maxOf(UpwardPath(e) \cap e.docsAt)

\* Discovery has run in this invocation and nobody has removed what it found.
Discovered ==
  /\ pc \in {"ensure", "entry", "done"}
  /\ docsDir = NoDir \/ docsDir \in env.docsAt

\* C15: root discovery returns the docs folder of the nearest directory on the path
\* from the working directory up to the filesystem root that holds a docs
\* sub-directory, reports "not found" only when no directory of that path holds
\* one, and never returns a folder outside that path.
C15_NearestOnPathToRoot ==
  Discovered =>
    /\ docsDir = Nearest(env)
    /\ docsDir = NoDir => UpwardPath(env) \cap env.docsAt = {}
    /\ docsDir # NoDir => docsDir \in UpwardPath(env)

\* C15 (amended): the path searched is the one from the working directory up to,
\* but not including, the filesystem root: discovery returns the docs folder of the
\* nearest directory of it that holds one, "not found" only when none does, and
\* never a folder outside it.
C15_NearestBelowRoot ==
  Discovered =>
    /\ docsDir = maxOf((UpwardPath(env) \ {0}) \cap env.docsAt)
    /\ docsDir = NoDir => (UpwardPath(env) \ {0}) \cap env.docsAt = {}
    /\ docsDir # NoDir => docsDir \in UpwardPath(env) \ {0}

\* Started three levels below the marker directory, with another docs folder in
\* the filesystem root.
C15_Witness ==
  /\ Discovered
  /\ env.cwd = 4
  /\ docsDir = 1
  /\ 0 \in env.docsAt


(***************************************************************************)
(* Status tallies.                                                         *)
(***************************************************************************)
\* The loaded feature records the statistics of `list features` are taken over.
Tallied ==
  {i \in LoadedFiles : /\ opts.showAll \/ StatusOf(i) # "complete"
                       /\ opts.filterStatus = "" \/ StatusOf(i) = opts.filterStatus}
StatsPrinted ==
  /\ ListDone /\ opts.type = "features" /\ opts.format = "stats"
  /\ Len(out) > 0 /\ out[Len(out)].k = "STATS"
Stats == out[Len(out)]

\* C18: in a status tally (here the counts of `list features --format stats`) a
\* record whose status is none of incomplete, in-progress, complete is counted as
\* incomplete, so the counts add up to the number of records tallied.
C18_TalliesAddUp ==
  StatsPrinted =>
    /\ Stats.total = Cardinality(Tallied)
    /\ Stats.incomplete =
         Cardinality({i \in Tallied : StatusOf(i) \notin {"complete", "in-progress"}})
    /\ Stats.complete + Stats.inProgress + Stats.incomplete = Stats.total

\* What the code does: only the exact status `incomplete` is counted as incomplete.
StatsCountExactStatus ==
  StatsPrinted =>
    /\ Stats.total = Cardinality(Tallied)
    /\ \A st \in {"complete", "in-progress", "incomplete"} :
         (CASE st = "complete" -> Stats.complete
            [] st = "in-progress" -> Stats.inProgress
            [] OTHER -> Stats.incomplete)
         = Cardinality({i \in Tallied : StatusOf(i) = st})


(***************************************************************************)
(* The system-design check.                                                *)
(***************************************************************************)
\* The system-design step is the last one taken; `before` holds the counters and
\* the length of the output it started from.
SystemStepDone == pc = "api" /\ Len(trace) > 0 /\ trace[Len(trace)] = "system"
TechStackWarnings ==
  Cardinality({i \in (before.mark + 1)..Len(out) :
                 out[i].k = "WARN" /\ out[i].m = "no-tech-stack"})
\* The record declares a tech stack: the key is there with something under it (an
\* empty string is taken as not declaring one).
DeclaresTechStack ==
  /\ tree.system.st = "data"
  /\ "tech_stack" \in DOMAIN tree.system.d
  /\ tree.system.d["tech_stack"] # Str("")

\* C19: when system-design.yaml exists and parses, the check emits one tech-stack
\* warning if the record has no tech_stack field and none if it declares one, of
\* whatever shape; a missing file gives one error and no warning.
C19_TechStackWarning ==
  SystemStepDone =>
    /\ tree.system.st = "data" =>
         TechStackWarnings = (IF DeclaresTechStack THEN 0 ELSE 1)
    /\ tree.system.st = "absent" => StepErrors = 1 /\ StepWarnings = 0

\* What the code does: the warning is spared only by a non-empty string.
TechStackWarningUnlessString ==
  SystemStepDone =>
    /\ tree.system.st = "data" =>
         TechStackWarnings = (IF getString(tree.system.d, "tech_stack") # "" THEN 0 ELSE 1)
    /\ tree.system.st = "absent" => StepErrors = 1 /\ StepWarnings = 0


(***************************************************************************)
(* The order of the listed records.                                        *)
(***************************************************************************)
\* The feature identifiers of the model in ascending order.
IdOrder == <<"", "F-01", "F-02", "F-03">>
idRank(id) == CHOOSE i \in 1..Len(IdOrder) : IdOrder[i] = id

FeaturesListed ==
  ListDone /\ opts.type = "features" /\ opts.format \in {"summary", "json"}

\* The records the filters keep, in the order of their files.
KeptFeatures ==
  LET parsed == parsedFeatures(findYamlFiles(tree.specs), 1)
      keep(f) == /\ opts.showAll \/ f.status # "complete"
                 /\ opts.filterStatus = "" \/ f.status = opts.filterStatus
  IN SelectSeq(parsed, keep)

Ascending(rank(_)) ==
  \A i \in 1..Len(Listed), j \in 1..Len(Listed) : i < j => rank(Listed[i]) <= rank(Listed[j])

\* Every kept record is listed once and nothing else is.
SameRecords ==
  /\ Len(Listed) = Len(KeptFeatures)
  /\ \A f \in {Listed[i] : i \in 1..Len(Listed)} \cup {KeptFeatures[i] : i \in 1..Len(KeptFeatures)} :
       Cardinality({i \in 1..Len(Listed) : Listed[i] = f})
         = Cardinality({i \in 1..Len(KeptFeatures) : KeptFeatures[i] = f})

\* C20: with no sort option or sort `id` the listed records are in ascending order
\* of their identifier, with sort `title` in ascending title order, with sort
\* `status` in ascending status order; sorting neither adds nor removes a record.
C20_OutputOrder ==
  FeaturesListed =>
    /\ opts.sortBy = "id" => Ascending(LAMBDA f : idRank(f.feature_id))
    /\ opts.sortBy = "title" => Ascending(LAMBDA f : collationKey(f.title))
    /\ opts.sortBy = "status" => Ascending(LAMBDA f : collationKey(f.status))
    /\ SameRecords

\* What the code does: without a title or status sort the records stay in the
\* order of their files.
OrderOfFilesUnlessSorted ==
  FeaturesListed =>
    /\ opts.sortBy = "id" => Listed = KeptFeatures
    /\ opts.sortBy = "title" => Ascending(LAMBDA f : collationKey(f.title))
    /\ opts.sortBy = "status" => Ascending(LAMBDA f : collationKey(f.status))
    /\ SameRecords


(***************************************************************************)
(* generate.ts.  The output directory is the set of the files in it; a     *)
(* generator's context g is the lines printed, the directory, the files    *)
(* written in this run, and whether an exception has ended the process.    *)
(***************************************************************************)
NoOutputDir == [exists |-> FALSE, files |-> {}]
Gen(m) == Line("GEN", m, "", "", 0)

say(g, m) == [g EXCEPT !.out = Append(@, Gen(m))]

\* writeFileSync(outputFile, markdown) and the line that reports it.
writeFile(g, name) ==
  say([g EXCEPT !.dir.files = @ \cup {name}, !.written = @ \cup {name}], name)

\* The documents of the output directory this run has written, by what the model
\* keeps of their text.
DocNames == {"overview.md", "features.md", "api-reference.md", "architecture.md", "README.md"}
NoDoc == [k |-> "none"]

\* writeFileSync(outputFile, markdown) for the markdown built from `content`.
writeDoc(g, name, content) == [writeFile(g, name) EXCEPT !.content[name] = content]

\* JavaScript truthiness of a parsed value.
truthy(v) ==
  CASE v.t = "str" -> v.s # ""
    [] v.t = "num" -> v.n # 0
    [] v.t \in {"missing", "null"} -> FALSE
    [] OTHER -> TRUE

\* getString(value, key) for a value that is truthy but need not be a mapping: a
\* string, a number or an array has no such property.
getStringOf(v, key) == IF v.t = "map" THEN getString(v.m, key) ELSE ""

\* generate.ts:26-29: the heading, the summary and the goal of overview.md.
overviewDoc(data) ==
  LET overview == IF "overview" \in DOMAIN data THEN data["overview"] ELSE Missing
  IN [k |-> "overview",
      projectName |-> orElse(getString(data, "project_name"), "Project"),
      summary |-> IF truthy(overview) THEN getStringOf(overview, "summary")
                  ELSE "No summary provided",
      goal |-> IF truthy(overview) THEN getStringOf(overview, "goal") ELSE "No goal defined"]

\* generate.ts:378-408: the goal and the tech stack lines of architecture.md.
architectureDoc(data) ==
  [k |-> "architecture",
   goal |-> getNestedString(data, "overview", "goal"),
   techStack |-> IF "tech_stack" \in DOMAIN data /\ data["tech_stack"].t = "map"
                 THEN DOMAIN data["tech_stack"].m ELSE {}]

\* The characters /[^a-z0-9]+/g leaves in place.
LowerAlnum ==
  {LowerChars[i] : i \in 1..Len(LowerChars)} \cup {"0", "1", "2", "3", "4", "5", "6", "7", "8", "9"}
        \cup {"f", "c", "n", "r", "y", "m", "l"}

\* path.replace(/[^a-z0-9]+/g, '')
stripNonLower(w) == SelectSeq(w, LAMBDA ch : ch \in LowerAlnum)

\* generate.ts:130, 223, 296: the anchor of an endpoint.
anchorOf(method, path) == toLowerCase(method) \o <<"-">> \o stripNonLower(path)

\* path.replace(/\[([^\]]+)\]/g, '{$1}'): a bracket, one or more characters that
\* are not a closing bracket, a closing bracket.
RECURSIVE bracesFor(_)
bracesFor(w) ==
  IF w = << >> THEN << >>
  ELSE LET closing == {j \in 2..Len(w) : w[j] = "]"}
           j == CHOOSE x \in closing : \A y \in closing : x <= y
       IN IF w[1] = "[" /\ closing # {} /\ j >= 3
          THEN <<"{">> \o SubSeq(w, 2, j - 1) \o <<"}">> \o bracesFor(SubSeq(w, j + 1, Len(w)))
          ELSE <<w[1]>> \o bracesFor(Tail(w))

\* The name of the i-th file of a directory: its stem and its extension.  A file
\* of the model without a name of its own is f<i>.yaml.
nameOf(file, i) ==
  IF "name" \in DOMAIN file THEN file.name
  ELSE [stem |-> <<"f", CASE i = 1 -> "1" [] i = 2 -> "2" [] i = 3 -> "3" [] OTHER -> "4">>,
        ext |-> "yaml"]

\* basename(file, '.yaml'): only that extension is taken off.
basenameYaml(name) ==
  IF name.ext = "yaml" THEN name.stem ELSE name.stem \o <<".", "y", "m", "l">>

\* file.match(/\/paths\/(.+)\/api-contract\.yaml$/): the file is api-contract.yaml
\* and its directory lies below a directory `paths`; docs.underPaths is then the
\* part of the directory's path after `/paths/`, and NoCapture otherwise.
NoCapture == <<"no match">>
ApiContractStem == <<"a", "p", "i", "-", "c", "o", "n", "t", "r", "a", "c", "t">>
pathMatch(docs, name) ==
  IF name.stem = ApiContractStem /\ name.ext = "yaml" THEN docs.underPaths ELSE NoCapture

\* generate.ts:182-184: the path of an endpoint in the API reference.
apiPath(docs, name) ==
  <<"/">> \o bracesFor(IF pathMatch(docs, name) # NoCapture THEN pathMatch(docs, name)
                       ELSE basenameYaml(name))

\* generate.ts:125-126: the path of an endpoint in the feature catalogue.
linkPath(docs, name) ==
  IF pathMatch(docs, name) # NoCapture THEN <<"/">> \o bracesFor(pathMatch(docs, name))
  ELSE << >>

\* getString(data, key) of a field the model keeps as a sequence of characters.
getChars(obj, key) ==
  IF key \in DOMAIN obj /\ obj[key].t = "str" THEN obj[key].s ELSE << >>

\* generate.ts:177-198: the entry of each contract file that loads, in file order.
RECURSIVE apiEntries(_, _, _)
apiEntries(docs, apiFiles, i) ==
  IF i > Len(apiFiles) THEN << >>
  ELSE (IF loadYaml(apiFiles[i]).ok
        THEN <<[file |-> i,
                path |-> apiPath(docs, nameOf(apiFiles[i], i)),
                method |-> toUpperCase(getChars(apiFiles[i].d, "method")),
                feature_id |-> getString(apiFiles[i].d, "feature_id")]>>
        ELSE << >>)
       \o apiEntries(docs, apiFiles, i + 1)

\* generate.ts:190: the feature an entry is filed under, if any.
grouped(e) == e.feature_id # "" /\ e.feature_id # "F-##"

\* Array.prototype.sort() without a comparator and localeCompare, over the
\* identifiers, paths and methods of the model.
CodeUnitOrder == <<"F-01", "F-02", "F-10", "f-01">>
codeUnitRank(str) == CHOOSE i \in 1..Len(CodeUnitOrder) : CodeUnitOrder[i] = str
PathCollation ==
  <<<<"/">>, <<"/", "a", "d">>, <<"/">> \o ApiContractStem, <<"/", "f", "1">>, <<"/", "f", "2">>, <<"/", "f", "3">>,
    <<"/", "f", "4">>, <<"/", "u", "{", "i", "d", "}">>, <<"/", "u", "s">>,
    <<"/", "U", "s">>, <<"/", "u", "s", ".", "y", "m", "l">>, <<"/", "U", "s", "/", "d">>>>
MethodCollation == <<<< >>, <<"G", "E", "T">>, <<"P", "O", "S", "T">>>>
rankIn(table, w) == CHOOSE i \in 1..Len(table) : table[i] = w

compareEndpoints_MethodFirst(a, b) ==
  IF a.method = b.method
  THEN rankIn(PathCollation, a.path) - rankIn(PathCollation, b.path)
  ELSE rankIn(MethodCollation, a.method) - rankIn(MethodCollation, b.method)

\* generate.ts:208-213, 284-289: by path, then by method.
compareEndpoints(a, b) ==
  IF a.path = b.path
  THEN rankIn(MethodCollation, a.method) - rankIn(MethodCollation, b.method)
  ELSE rankIn(PathCollation, a.path) - rankIn(PathCollation, b.path)

RECURSIVE insertEndpoint(_, _)
insertEndpoint(sorted, x) ==
  IF sorted = << >> THEN <<x>>
  ELSE IF compareEndpoints(Head(sorted), x) <= 0
       THEN <<Head(sorted)>> \o insertEndpoint(Tail(sorted), x)
       ELSE <<x>> \o sorted

RECURSIVE sortEndpoints(_)
sortEndpoints(seq) ==
  IF seq = << >> THEN << >>
  ELSE insertEndpoint(sortEndpoints(SubSeq(seq, 1, Len(seq) - 1)), seq[Len(seq)])

\* The headings of a section: each endpoint with the anchor its heading defines.
withAnchors(entries) ==
  [i \in 1..Len(entries) |->
     [file |-> entries[i].file, path |-> entries[i].path, method |-> entries[i].method,
      anchor |-> anchorOf(entries[i].method, entries[i].path)]]

\* generate.ts:201-203: the feature identifiers in sorted order.
RECURSIVE sortedKeys(_)
sortedKeys(S) ==
  IF S = {} THEN << >>
  ELSE LET k == CHOOSE x \in S : \A y \in S : codeUnitRank(x) <= codeUnitRank(y)
       IN <<k>> \o sortedKeys(S \ {k})

\* generate.ts:205-281: one section per feature.
featureSections(entries, keys) ==
  [i \in 1..Len(keys) |->
     [group |-> keys[i],
      endpoints |-> withAnchors(sortEndpoints(
                      SelectSeq(entries, LAMBDA e : grouped(e) /\ e.feature_id = keys[i])))]]

\* generate.ts:173-354: the sections of api-reference.md, the uncategorized one
\* last and only when it has an endpoint.
apiReferenceDoc(docs) ==
  LET entries == apiEntries(docs, findYamlFiles(docs.apiDir), 1)
      keys == sortedKeys({entries[i].feature_id : i \in {j \in 1..Len(entries) : grouped(entries[j])}})
      orphaned == SelectSeq(entries, LAMBDA e : ~grouped(e))
  IN [k |-> "api-reference",
      sections |-> featureSections(entries, keys)
                   \o (IF Len(orphaned) > 0
                       THEN <<[group |-> "uncategorized",
                               endpoints |-> withAnchors(sortEndpoints(orphaned))]>>
                       ELSE << >>)]

\* generate.ts:111-136: the links of one feature to the contracts that name it.
RECURSIVE featureLinks(_, _, _, _)
featureLinks(docs, featureId, apiFiles, i) ==
  IF i > Len(apiFiles) THEN << >>
  ELSE (IF loadYaml(apiFiles[i]).ok /\ getString(apiFiles[i].d, "feature_id") = featureId
        THEN LET method == toUpperCase(getChars(apiFiles[i].d, "method"))
                 path == linkPath(docs, nameOf(apiFiles[i], i))
             IN <<[file |-> i, method |-> method, path |-> path,
                   anchor |-> anchorOf(method, path)]>>
        ELSE << >>)
       \o featureLinks(docs, featureId, apiFiles, i + 1)

\* generate.ts:78-143: the section of each feature file that loads.
RECURSIVE featureSectionsOf(_, _, _)
featureSectionsOf(docs, featureFiles, i) ==
  IF i > Len(featureFiles) THEN << >>
  ELSE (IF loadYaml(featureFiles[i]).ok
        THEN <<[feature_id |-> getString(featureFiles[i].d, "feature_id"),
                status |-> orElse(getString(featureFiles[i].d, "status"), "incomplete"),
                links |-> IF existsSync(docs.apiDir)
                          THEN featureLinks(docs, getString(featureFiles[i].d, "feature_id"),
                                            findYamlFiles(docs.apiDir), 1)
                          ELSE << >>]>>
        ELSE << >>)
       \o featureSectionsOf(docs, featureFiles, i + 1)

featuresDoc(docs) ==
  [k |-> "features", sections |-> featureSectionsOf(docs, findYamlFiles(docs.specs), 1)]

\* generate.ts:419-438: the index always opens its "Table of Contents" section,
\* which links the documents found in the output directory.
indexDoc(dir) ==
  [k |-> "index", tocHeading |-> TRUE, toc |-> dir.files \cap (DocNames \ {"README.md"})]

\* generate.ts setupOutputDir
setupOutputDir(g) ==
  IF ~g.dir.exists THEN say([g EXCEPT !.dir.exists = TRUE], "created-dir") ELSE g

\* generate.ts generateOverview
generateOverview(g, docs) ==
  IF ~existsSync(docs.prd) THEN say(g, "skip-overview")
  ELSE LET g1 == say(g, "generating-overview")
       IN IF ~loadYaml(docs.prd).ok THEN g1
          ELSE writeDoc(g1, "overview.md", overviewDoc(loadYaml(docs.prd).d))

\* generate.ts generateFeatureDocs: features.md is written whatever the directory
\* holds.
generateFeatureDocs(g, docs) ==
  IF ~existsSync(docs.specs) THEN say(g, "skip-features")
  ELSE writeDoc(say(g, "generating-features"), "features.md", featuresDoc(docs))

\* generate.ts:267-275: getString on a response that is null raises.
responsesThrow(d) ==
  /\ "responses" \in DOMAIN d
  /\ d["responses"].t = "ent"
  /\ \E i \in 1..Len(d["responses"].e) : d["responses"].e[i].v = Null

\* generate.ts generateApiDocs
generateApiDocs(g, docs) ==
  IF ~existsSync(docs.apiDir) THEN say(g, "skip-api")
  ELSE LET g1 == say(g, "generating-api")
           apiFiles == findYamlFiles(docs.apiDir)
       IN IF Len(apiFiles) = 0 THEN say(g1, "skip-api-no-files")
          ELSE IF \E i \in 1..Len(apiFiles) :
                    loadYaml(apiFiles[i]).ok /\ responsesThrow(apiFiles[i].d)
               THEN [g1 EXCEPT !.threw = TRUE]
               ELSE writeDoc(g1, "api-reference.md", apiReferenceDoc(docs))

\* generate.ts generateArchitectureDocs
generateArchitectureDocs(g, docs) ==
  IF ~existsSync(docs.system) THEN say(g, "skip-architecture")
  ELSE LET g1 == say(g, "generating-architecture")
       IN IF ~loadYaml(docs.system).ok THEN g1
          ELSE writeDoc(g1, "architecture.md", architectureDoc(loadYaml(docs.system).d))

\* generate.ts generateIndex
generateIndex(g) == writeDoc(say(g, "generating-index"), "README.md", indexDoc(g.dir))

\* A statement of generate() runs unless an exception has ended the process.
then(g, next) == IF g.threw THEN g ELSE next

\* generate.ts generate: what is printed, the output directory, the files written
\* and the exit status.  An uncaught exception ends the process with status 1.
generate(docs, rootExists) ==
  LET g0 == [out |-> <<Gen("banner")>>, dir |-> docs.generated, written |-> {},
             threw |-> FALSE, content |-> [n \in DocNames |-> NoDoc]]
  IN IF ~rootExists
     THEN [out |-> Append(g0.out, Gen("root-not-found")), dir |-> g0.dir,
           written |-> {}, threw |-> FALSE, content |-> g0.content, exit |-> 1]
     ELSE LET g1 == setupOutputDir(g0)
              g2 == generateOverview(g1, docs)
              g3 == then(g2, generateFeatureDocs(g2, docs))
              g4 == then(g3, generateApiDocs(g3, docs))
              g5 == then(g4, generateArchitectureDocs(g4, docs))
              g6 == then(g5, generateIndex(g5))
              g7 == then(g6, say(g6, "complete"))
          IN [out |-> IF g7.threw THEN g7.out \o Threw ELSE g7.out, dir |-> g7.dir, written |-> g7.written, threw |-> g7.threw,
              content |-> g7.content, exit |-> IF g7.threw THEN 1 ELSE 0]


(***************************************************************************)
(* info (template.ts:81-200) and template (template.ts:1-79).              *)
(***************************************************************************)
\* The statuses of the files of a directory that load.
RECURSIVE loadedStatuses(_, _)
loadedStatuses(files, i) ==
  IF i > Len(files) THEN << >>
  ELSE (IF loadYaml(files[i]).ok
        THEN <<[status |-> getString(loadYaml(files[i]).d, "status")]>> ELSE << >>)
       \o loadedStatuses(files, i + 1)

\* template.ts:120-139, 146-165: the three-way tally of a directory.
tally(cat, dir) ==
  LET files == findYamlFiles(dir)
      records == loadedStatuses(files, 1)
      complete == countStatus(records, "complete")
      inProgress == countStatus(records, "in-progress")
  IN [k |-> "TALLY", m |-> cat, total |-> Len(files), complete |-> complete,
      inProgress |-> inProgress, incomplete |-> Len(records) - complete - inProgress]

Info(m, n) == Line("INFO", m, "", "", n)

\* info: the lines printed and the exit status.
info(docs, rootExists) ==
  IF ~rootExists THEN [out |-> <<Info("root-not-found", 0)>>, exit |-> 1]
  ELSE LET prd == IF ~existsSync(docs.prd) THEN <<Info("no-prd", 0)>>
                  ELSE IF loadYaml(docs.prd).ok
                       THEN <<Info("prd-features", Len(getArray(loadYaml(docs.prd).d, "features")))>>
                       ELSE << >>
           features == IF existsSync(docs.specs) THEN <<tally("features", docs.specs)>> ELSE << >>
           stories == IF existsSync(docs.stories) THEN <<tally("stories", docs.stories)>> ELSE << >>
           flows == IF existsSync(docs.flows)
                    THEN <<Info("flows", Len(findYamlFiles(docs.flows)))>> ELSE << >>
           apis == IF existsSync(docs.apiDir)
                   THEN <<Info("endpoints", Len(findYamlFiles(docs.apiDir)))>> ELSE << >>
           system == IF existsSync(docs.system) /\ loadYaml(docs.system).ok
                     THEN <<Info("components",
                                 Len(getArray(loadYaml(docs.system).d, "core_components")))>>
                     ELSE << >>
       IN [out |-> <<Info("directory", 0)>> \o prd \o features \o stories \o flows \o apis
                   \o system,
           exit |-> 0]

\* The keys of TEMPLATE_MAP.
TemplateTypes ==
  {"product-requirements", "system-design", "api-contract", "design-spec", "user-flow",
   "user-story", "feature-spec", "requirements", "investigation-topic", "plan",
   "epic-plan", "claude"}

\* template: the type's template is printed; an invalid type or a template file
\* that is not installed ends the process with status 1.
template(type, templateExists) ==
  IF type \notin TemplateTypes THEN [out |-> <<Msg("invalid-template-type", 0)>>, exit |-> 1]
  ELSE IF ~templateExists THEN [out |-> <<Msg("template-file-not-found", 0)>>, exit |-> 1]
  ELSE [out |-> <<Msg("template-content", 0)>>, exit |-> 0]

(***************************************************************************)
(* cli.ts: the five commands.  A tree has check's categories, the          *)
(* api-contracts directory (and what its path holds after a `/paths/`) and *)
(* the output directory of generate.                                       *)
(***************************************************************************)
ApiContract(fid, method, responses) ==
  DataFile(Opt("feature_id", fid) @@ Opt("method", method) @@ Opt("responses", responses))
CleanContract == ApiContract(Str("F-01"), Str(<<"g", "e", "t">>), Missing)
NullResponseContract ==
  ApiContract(Str("F-01"), Str(<<"g", "e", "t">>), Ent(<<[k |-> "200", v |-> Null]>>))

CleanCliTree ==
  [c \in Categories \cup {"apiDir", "underPaths", "generated"} |->
     CASE c = "apiDir" -> Dir(<<CleanContract>>)
       [] c = "underPaths" -> NoCapture
       [] c = "generated" -> NoOutputDir
       [] c = "api" -> DataFile(EmptyMap)
       [] OTHER -> CleanTree[c]]

\* The clean tree with one category missing or without data.
CliTrees ==
  {CleanCliTree}
  \cup {[CleanCliTree EXCEPT ![c] = Absent] : c \in Categories \cup {"apiDir"}}
  \cup {[CleanCliTree EXCEPT ![c] = NoDataFile] : c \in {"prd", "system", "api"}}

Commands == {"check", "list", "generate", "info", "template"}
CliOpts(cmd, type) ==
  [k \in DOMAIN DefaultListOpts \cup {"cmd", "verbose", "checkLinks"} |->
     CASE k = "cmd" -> cmd
       [] k = "type" -> type
       [] k = "verbose" -> FALSE
       [] k = "checkLinks" -> TRUE
       [] OTHER -> DefaultListOpts[k]]
CliArgs ==
  {CliOpts(cmd, "") : cmd \in {"check", "generate", "info"}}
  \cup {CliOpts("list", ty) : ty \in ValidTypes \cup {"", "feature"}}
  \cup {CliOpts("template", ty) : ty \in {"claude", "feature-spec", "bogus"}}

NoInstall == [claude |-> "none"]

CliInit ==
  /\ \/ tree \in CliTrees /\ env = DefaultEnv
     \/ tree = CleanCliTree /\ env = [cwd |-> 1, docsAt |-> {}]
  /\ claudeMd \in {"absent", "user"} /\ tmplOk \in BOOLEAN
  /\ pc = "idle" /\ opts = CliOpts("check", "") /\ docsDir = NoDir /\ result = ZeroResult
  /\ out = << >> /\ trace = << >> /\ before = NoInstall
  /\ exit = NoExit /\ last = NoLast

\* `pdocs <command> ...`: a new process.  A second invocation repeats the first
\* one's command line.  template has no discovery (cli.ts:122-127); list without
\* its required argument ends before its action runs (cli.ts:45).
CliInvoke ==
  /\ pc = "idle"
  /\ \E o \in CliArgs :
       /\ last.has => o = last.opts
       /\ opts' = o
       /\ IF o.cmd = "list" /\ o.type = ""
          THEN out' = <<Msg("missing-argument", 0)>> /\ exit' = 1 /\ pc' = "done"
          ELSE /\ out' = << >> /\ exit' = NoExit
               /\ pc' = IF o.cmd = "template" THEN "run" ELSE "discover"
  /\ result' = ZeroResult /\ trace' = << >> /\ before' = NoInstall /\ docsDir' = NoDir
  /\ UNCHANGED <<tree, env, claudeMd, tmplOk, last>>

\* cli.ts:27-32, 47-52, 86-91, 108-113
CliDiscover ==
  /\ pc = "discover"
  /\ docsDir' = findDocsDir(env)
  /\ trace' = Append(trace, "discover")
  /\ IF findDocsDir(env) = NoDir
     THEN /\ out' = Append(out, Line("FATAL", "no-docs-dir", "", "", 0))
          /\ exit' = 1
          /\ pc' = "done"
     ELSE /\ pc' = "ensure"
          /\ UNCHANGED <<out, exit>>
  /\ UNCHANGED <<tree, env, claudeMd, tmplOk, opts, result, before, last>>

\* Mutant: a missing template ends the process with status 1.
CliEnsure_FailOnMissing ==
  /\ pc = "ensure"
  /\ LET r == ensureClaudeDoc(claudeMd, tmplOk, docsDir \in env.docsAt)
     IN /\ claudeMd' = r.claude
        /\ out' = IF r.note = "" THEN out ELSE Append(out, Line("NOTE", r.note, "", "", 0))
        /\ IF r.note = "template-not-found"
           THEN exit' = 1 /\ pc' = "done"
           ELSE exit' = exit /\ pc' = "run"
  /\ before' = [claude |-> claudeMd]
  /\ trace' = Append(trace, "ensure")
  /\ UNCHANGED <<tree, env, tmplOk, opts, docsDir, result, last>>

\* cli.ts:34, 54, 93, 115: ensureClaudeDoc(docsDir); `before` keeps what CLAUDE.md
\* was.
CliEnsure ==
  /\ pc = "ensure"
  /\ LET r == ensureClaudeDoc(claudeMd, tmplOk, docsDir \in env.docsAt)
     IN /\ claudeMd' = r.claude
        /\ out' = IF r.note = "" THEN out ELSE Append(out, Line("NOTE", r.note, "", "", 0))
  /\ before' = [claude |-> claudeMd]
  /\ trace' = Append(trace, "ensure")
  /\ pc' = "run"
  /\ UNCHANGED <<tree, env, tmplOk, opts, docsDir, result, exit, last>>

\* The command's own logic, run to the end of the process.
CliRun(cmd, r) ==
  /\ pc = "run" /\ opts.cmd = cmd
  /\ out' = out \o r.out
  /\ exit' = r.exit
  /\ trace' = Append(trace, cmd)
  /\ pc' = "done"
  /\ UNCHANGED <<env, claudeMd, tmplOk, opts, docsDir, before, last>>

\* cli.ts:36-40: check(); check.ts:408-411 ends the run when the root is gone.
CliCheck ==
  /\ LET c == checkAll(tree, opts)
     IN IF docsDir \in env.docsAt
        THEN CliRun("check", [out |-> c.out, exit |-> generateSummary(c.result)])
               /\ result' = c.result
        ELSE CliRun("check", [out |-> <<Line("ERROR", "root-not-found", "", "", 0)>>,
                              exit |-> 1])
               /\ result' = [ZeroResult EXCEPT !.totalErrors = 1]
  /\ UNCHANGED tree

\* cli.ts:56-64: the type is validated, then list() runs.
CliList ==
  /\ CliRun("list", IF opts.type \notin ValidTypes
                    THEN [out |-> <<Msg("invalid-type", 0)>>, exit |-> 1]
                    ELSE list(tree, opts.type, opts))
  /\ UNCHANGED <<tree, result>>

\* cli.ts:95-101: generate(); `result` keeps the files this run wrote.
CliGenerate ==
  /\ LET r == generate(tree, docsDir \in env.docsAt)
     IN /\ CliRun("generate", r)
        /\ tree' = [tree EXCEPT !.generated = r.dir]
        /\ result' = [written |-> r.written, content |-> r.content]

\* cli.ts:117
CliInfo ==
  /\ CliRun("info", info(tree, docsDir \in env.docsAt))
  /\ UNCHANGED <<tree, result>>

\* cli.ts:125
CliTemplate ==
  /\ CliRun("template", template(opts.type, tmplOk))
  /\ UNCHANGED <<tree, result>>

\* What the install step did in this run.
Install ==
  CASE before.claude = "none" -> "none"
    [] before.claude # "absent" -> "unnecessary"
    [] claudeMd = "template" -> "installed"
    [] OTHER -> "not-done"

\* The process has exited; what it ended with is kept for the next invocation to
\* be compared with.
CliFinish ==
  /\ pc = "done"
  /\ last' = [has |-> TRUE, opts |-> opts, exit |-> exit, docsDir |-> docsDir,
              install |-> Install]
  /\ pc' = "idle"
  /\ UNCHANGED <<tree, env, claudeMd, tmplOk, opts, docsDir, result, out, trace, before, exit>>

\* The environment between two invocations: the bundled templates are removed or
\* restored (the package is reinstalled), CLAUDE.md is deleted by its owner.
EnvTemplates ==
  /\ pc = "idle" /\ last.has
  /\ tmplOk' = ~tmplOk
  /\ UNCHANGED <<tree, env, claudeMd, pc, opts, docsDir, result, out, trace, before, exit, last>>

EnvDeleteClaude ==
  /\ pc = "idle" /\ last.has /\ claudeMd # "absent"
  /\ claudeMd' = "absent"
  /\ UNCHANGED <<tree, env, tmplOk, pc, opts, docsDir, result, out, trace, before, exit, last>>

CliNext ==
  \/ CliInvoke
  \/ CliDiscover
  \/ CliEnsure
  \/ CliCheck
  \/ CliList
  \/ CliGenerate
  \/ CliInfo
  \/ CliTemplate
  \/ CliFinish
  \/ EnvTemplates
  \/ EnvDeleteClaude

CliSpec == CliInit /\ [][CliNext]_vars


(***************************************************************************)
(* The CLAUDE.md install step.                                             *)
(***************************************************************************)
Steps == {trace[i] : i \in 1..Len(trace)}
InstallingCommands == {"check", "list", "generate", "info"}

\* The install step comes after the discovery and before the command's logic, and
\* template has neither.
InstallOrder ==
  /\ "ensure" \in Steps => Len(trace) >= 2 /\ trace[1] = "discover" /\ trace[2] = "ensure"
  /\ \A cmd \in InstallingCommands :
       cmd \in Steps => trace = <<"discover", "ensure", cmd>>
  /\ opts.cmd = "template" => Steps \subseteq {"template"}

\* The install step has run in this invocation.
InstallStepDone == pc \in {"run", "done"} /\ before # NoInstall

\* Two invocations of the same command line on the same root, each with an install
\* step, end with the same exit status.
SameExitWhateverInstall ==
  (/\ pc = "done" /\ last.has /\ last.opts = opts /\ last.docsDir = docsDir
   /\ Install # "none" /\ last.install # "none")
  => exit = last.exit

\* C16 as stated: for check, list, generate and info (not template) the install
\* step runs after the discovery and before the command's logic; after it CLAUDE.md
\* either existed and is unchanged or was absent and now has the template's
\* content; the exit status does not depend on what the install step did.
C16_InstallStep ==
  /\ InstallOrder
  /\ InstallStepDone =>
       \/ before.claude # "absent" /\ claudeMd = before.claude
       \/ before.claude = "absent" /\ claudeMd = "template"
  /\ SameExitWhateverInstall

\* C16 (amended): as stated, and a CLAUDE.md that was absent is still absent when
\* the bundled template is missing or cannot be copied into the root.
C16_InstallStepOrNone ==
  /\ InstallOrder
  /\ InstallStepDone =>
       \/ before.claude # "absent" /\ claudeMd = before.claude
       \/ before.claude = "absent" /\ claudeMd = "template"
       \/ /\ before.claude = "absent" /\ claudeMd = "absent"
          /\ ~tmplOk \/ docsDir \notin env.docsAt
  /\ SameExitWhateverInstall

\* generate ends a second time, now with CLAUDE.md installed, after a run in which
\* the template was missing.
C16_Witness ==
  /\ pc = "done" /\ opts.cmd = "generate" /\ trace = <<"discover", "ensure", "generate">>
  /\ last.has /\ last.opts = opts /\ last.install = "not-done"
  /\ Install = "installed" /\ claudeMd = "template"
  /\ exit = 0


(***************************************************************************)
(* `pdocs generate` over the combinations of its four sources.             *)
(***************************************************************************)
ContractFiles == {CleanContract, NoDataFile, NullResponseContract}

GenTrees ==
  {[CleanCliTree EXCEPT !.prd = p, !.specs = f, !.apiDir = a, !.system = sy, !.generated = g] :
     p \in {CleanPrd, Absent, NoDataFile},
     f \in {Dir(<<CleanSpec>>), Dir(<< >>), Dir(<<NoDataFile>>), Absent},
     a \in {Absent} \cup {Dir(q) : q \in SeqsUpTo(ContractFiles, MaxFiles)},
     sy \in {CleanSystem, Absent, NoDataFile},
     g \in {NoOutputDir, [exists |-> TRUE, files |-> {"overview.md"}]}}

GenInit ==
  /\ \/ tree \in GenTrees /\ env = DefaultEnv
     \/ tree = CleanCliTree /\ env = [cwd |-> 1, docsAt |-> {}]
  /\ claudeMd = "absent" /\ tmplOk = TRUE
  /\ pc = "idle" /\ opts = CliOpts("generate", "") /\ docsDir = NoDir /\ result = ZeroResult
  /\ out = << >> /\ trace = << >> /\ before = NoInstall
  /\ exit = NoExit /\ last = NoLast

\* `pdocs generate`, once.
GenInvoke ==
  /\ pc = "idle" /\ exit = NoExit
  /\ pc' = "discover"
  /\ UNCHANGED <<tree, env, claudeMd, tmplOk, opts, docsDir, result, out, trace, before,
                 exit, last>>

GenNext ==
  \/ GenInvoke
  \/ CliDiscover
  \/ CliEnsure
  \/ CliGenerate

GenSpec == GenInit /\ [][GenNext]_vars

GenDone == pc = "done" /\ trace = <<"discover", "ensure", "generate">>
Printed(m) == \E i \in 1..Len(out) : out[i] = Gen(m)

\* A generator: its source in the tree, its output file, its skip warning.
Generators ==
  {[src |-> "prd", file |-> "overview.md", skip |-> "skip-overview"],
   [src |-> "specs", file |-> "features.md", skip |-> "skip-features"],
   [src |-> "apiDir", file |-> "api-reference.md", skip |-> "skip-api"],
   [src |-> "system", file |-> "architecture.md", skip |-> "skip-architecture"]}

\* C17: after a generate run on an existing root the output directory exists; a
\* generator whose source is absent prints its skip warning and writes nothing, one
\* whose source is present writes its file, whatever the others do; the index is
\* written in every run; with all four sources present exactly the five files are
\* written.
C17_GeneratorsIndependent ==
  GenDone =>
    /\ tree.generated.exists
    /\ \A g \in Generators :
         IF existsSync(tree[g.src])
         THEN g.file \in result.written
         ELSE Printed(g.skip) /\ g.file \notin result.written
    /\ "README.md" \in result.written
    /\ (\A g \in Generators : existsSync(tree[g.src])) =>
         result.written = {g.file : g \in Generators} \cup {"README.md"}

\* What the code does.  A source that is there but yields no data (a PRD or a
\* system design that does not load, an api-contracts directory without a YAML
\* file) is passed over, without a skip warning for the two files; a contract with
\* a null response ends the process before the later generators.
SourceYields(src) ==
  CASE src = "prd" -> loadYaml(tree.prd).ok
    [] src = "system" -> loadYaml(tree.system).ok
    [] src = "specs" -> existsSync(tree.specs)
    [] OTHER -> Len(findYamlFiles(tree.apiDir)) > 0
ContractThrows ==
  \E i \in 1..Len(findYamlFiles(tree.apiDir)) :
    LET f == findYamlFiles(tree.apiDir)[i] IN f.st = "data" /\ responsesThrow(f.d)

GeneratorsAsCoded ==
  GenDone =>
    /\ tree.generated.exists
    /\ exit = (IF ContractThrows THEN 1 ELSE 0)
    /\ \A g \in Generators :
         /\ ~existsSync(tree[g.src]) => g.file \notin result.written
         /\ (~existsSync(tree[g.src]) /\ (~ContractThrows \/ g.src # "system"))
              => Printed(g.skip)
         /\ ~ContractThrows => (g.file \in result.written <=> SourceYields(g.src))
    /\ "README.md" \in result.written <=> ~ContractThrows


(***************************************************************************)
(* `pdocs generate` over named API contract files.                         *)
(***************************************************************************)
\* The names of the contract files of the model, in the order of their paths.
ContractNames ==
  <<[stem |-> <<"U", "s">>, ext |-> "yaml"],
    [stem |-> ApiContractStem, ext |-> "yaml"],
    [stem |-> <<"u", "[", "i", "d", "]">>, ext |-> "yaml"],
    [stem |-> <<"u", "s">>, ext |-> "yaml"],
    [stem |-> <<"u", "s">>, ext |-> "yml"],
    [stem |-> <<"u", "{", "i", "d", "}">>, ext |-> "yaml"]>>

NamedContract(n, fid, method) ==
  [st |-> "data", d |-> Opt("feature_id", fid) @@ Opt("method", method),
   name |-> ContractNames[n], n |-> n]

NamedContracts ==
  {NamedContract(n, c[1], c[2]) :
     n \in 1..Len(ContractNames),
     c \in {<<Str("F-01"), Str(<<"g", "e", "t">>)>>, <<Str("F-01"), Str(<<"P", "O", "S", "T">>)>>,
            <<Str("F-02"), Str(<<"g", "e", "t">>)>>, <<Str("F-##"), Str(<<"g", "e", "t">>)>>,
            <<Missing, Missing>>}}
  \cup {[st |-> "unparsable", name |-> ContractNames[n], n |-> n] : n \in {4}}

\* A directory lists its files in the order of their names, each name once.
ContractDirs ==
  {Dir(q) : q \in {r \in SeqsUpTo(NamedContracts, MaxFiles) :
                     \A i \in 1..Len(r), j \in 1..Len(r) : i < j => r[i].n < r[j].n}}

OtherSpec == SpecFile(Str("F-02"), Str("incomplete"), Str("done"))

DocTrees ==
  {[CleanCliTree EXCEPT !.apiDir = a, !.underPaths = u, !.specs = f] :
     a \in ContractDirs,
     u \in {NoCapture, <<"U", "s", "/", "d">>},
     f \in {Dir(<<CleanSpec, OtherSpec>>), Absent}}

\* The options of `pdocs generate`: --no-toc clears toc (cli.ts:84, 100).
GenerateOpts(toc) ==
  [k \in DOMAIN CliOpts("generate", "") \cup {"toc"} |->
     IF k = "toc" THEN toc ELSE CliOpts("generate", "")[k]]

DocInit ==
  /\ \/ tree \in DocTrees /\ env = DefaultEnv
     \/ tree = CleanCliTree /\ env = [cwd |-> 1, docsAt |-> {}]
  /\ claudeMd = "absent" /\ tmplOk = TRUE
  /\ pc = "idle" /\ opts = GenerateOpts(TRUE) /\ docsDir = NoDir /\ result = ZeroResult
  /\ out = << >> /\ trace = << >> /\ before = NoInstall
  /\ exit = NoExit /\ last = NoLast

\* `pdocs generate [--no-toc]`, once.
DocInvoke ==
  /\ pc = "idle" /\ exit = NoExit
  /\ \E toc \in BOOLEAN : opts' = GenerateOpts(toc)
  /\ pc' = "discover"
  /\ UNCHANGED <<tree, env, claudeMd, tmplOk, docsDir, result, out, trace, before, exit, last>>

DocNext ==
  \/ DocInvoke
  \/ CliDiscover
  \/ CliEnsure
  \/ CliGenerate

DocSpec == DocInit /\ [][DocNext]_vars

(***************************************************************************)
(* The anchors of the endpoints.                                           *)
(***************************************************************************)
Written(name) == GenDone /\ name \in result.written
ApiRef == result.content["api-reference.md"]
Catalogue == result.content["features.md"]

\* Every endpoint heading of the API reference and every endpoint link of the
\* feature catalogue, as written by this run.
WrittenEndpoints ==
  (IF Written("api-reference.md")
   THEN UNION {{ApiRef.sections[i].endpoints[j] : j \in 1..Len(ApiRef.sections[i].endpoints)} :
                 i \in 1..Len(ApiRef.sections)}
   ELSE {})
  \cup
  (IF Written("features.md")
   THEN UNION {{Catalogue.sections[i].links[j] : j \in 1..Len(Catalogue.sections[i].links)} :
                 i \in 1..Len(Catalogue.sections)}
   ELSE {})

\* The letters and digits of the model's alphabet.
Alnum ==
  LowerAlnum \cup {UpperChars[i] : i \in 1..Len(UpperChars)}
alnumOnly(w) == SelectSeq(w, LAMBDA ch : ch \in Alnum)

\* C21: the anchor of every endpoint the generator writes is the lowercased method
\* followed by the path with its non-alphanumeric characters stripped: every
\* letter and digit of the path is kept.  (The hyphen that joins the two parts is
\* taken as part of "followed by".)
C21_AnchorKeepsAlnum ==
  \A e \in WrittenEndpoints :
    e.anchor = toLowerCase(e.method) \o <<"-">> \o alnumOnly(e.path)

\* What the code does: only lower-case letters and digits of the path are kept.
AnchorKeepsLowerAlnum ==
  \A e \in WrittenEndpoints :
    e.anchor = toLowerCase(e.method) \o <<"-">> \o stripNonLower(e.path)

(***************************************************************************)
(* The sections of the API reference.                                      *)
(***************************************************************************)
ContractFilesOfTree == tree.apiDir.files
LoadedContracts == {i \in 1..Len(ContractFilesOfTree) : ContractFilesOfTree[i].st = "data"}
featureIdOf(i) == getString(ContractFilesOfTree[i].d, "feature_id")
Recognized(i) == featureIdOf(i) # "" /\ featureIdOf(i) # "F-##"
Uncategorized == "uncategorized"

\* The places (section, position) at which the endpoint of file i is printed.
Places(i) ==
  {p \in UNION {{<<s, j>> : j \in 1..Len(ApiRef.sections[s].endpoints)} :
                  s \in 1..Len(ApiRef.sections)} :
     ApiRef.sections[p[1]].endpoints[p[2]].file = i}

PathThenMethod(a, b) ==
  \/ rankIn(PathCollation, a.path) < rankIn(PathCollation, b.path)
  \/ a.path = b.path /\ rankIn(MethodCollation, a.method) <= rankIn(MethodCollation, b.method)

\* C22: in a written API reference every loaded endpoint is printed exactly once,
\* under its feature id when it has a recognized one and in the one uncategorized
\* section otherwise; the uncategorized section comes after every feature
\* section, the feature sections are in strictly ascending order of identifier,
\* and the endpoints of a section are in order of path, then method.
C22_SectionsOfReference ==
  Written("api-reference.md") =>
    LET secs == ApiRef.sections
    IN /\ \A i \in LoadedContracts :
            /\ Cardinality(Places(i)) = 1
            /\ \A p \in Places(i) :
                 secs[p[1]].group = (IF Recognized(i) THEN featureIdOf(i) ELSE Uncategorized)
       /\ \A i \in (1..Len(ContractFilesOfTree)) \ LoadedContracts : Places(i) = {}
       /\ \A s \in 1..Len(secs), t \in 1..Len(secs) :
            s < t => /\ secs[s].group # Uncategorized
                     /\ secs[t].group # Uncategorized
                          => codeUnitRank(secs[s].group) < codeUnitRank(secs[t].group)
       /\ \A s \in 1..Len(secs) :
            /\ Len(secs[s].endpoints) > 0
            /\ \A j \in 1..Len(secs[s].endpoints), k \in 1..Len(secs[s].endpoints) :
                 j < k => PathThenMethod(secs[s].endpoints[j], secs[s].endpoints[k])

\* A reference with a feature section of two endpoints whose file order is not
\* their order in the section.
C22_Witness ==
  /\ Written("api-reference.md")
  /\ \E s \in 1..Len(ApiRef.sections) :
       /\ ApiRef.sections[s].group = "F-01"
       /\ Len(ApiRef.sections[s].endpoints) = 2
       /\ ApiRef.sections[s].endpoints[1].file > ApiRef.sections[s].endpoints[2].file

(***************************************************************************)
(* The table of contents.                                                  *)
(***************************************************************************)
Index == result.content["README.md"]
HasToc(doc) == "tocHeading" \in DOMAIN doc /\ doc.tocHeading

\* C23: a run with --no-toc writes no file that holds a table of contents, and
\* a run without it writes an index that holds one.
C23_NoTocSkipsContents ==
  GenDone =>
    /\ ~opts.toc => \A name \in result.written : ~HasToc(result.content[name])
    /\ opts.toc /\ "README.md" \in result.written => HasToc(Index)

\* What the code does: the index holds the table of contents whatever the option.
TocWhateverOption ==
  Written("README.md") => HasToc(Index)

(***************************************************************************)
(* Uncaught exceptions.                                                    *)
(***************************************************************************)
UncaughtException == \E i \in 1..Len(out) : out[i] = Threw[1]

\* C24: whatever the tree holds, no command ends with an uncaught exception.
C24_NoUncaughtException ==
  pc = "done" => ~UncaughtException

\* What the code does in `generate`: the run ends with an exception exactly when
\* a contract file that loads has a null response.
GenerateThrowsOnNullResponse ==
  GenDone => (UncaughtException <=> ContractThrows)

(***************************************************************************)
(* The remediation hints of check.                                         *)
(***************************************************************************)
\* The template types check has named in its hints and in its failure summary.
HintedTypes == {out[i].a : i \in {j \in 1..Len(out) : out[j].k = "HINT"}}
Accepted(type) == template(type, TRUE).exit = 0

\* C25: every type a hint of check names is a type `pdocs template` accepts.
C25_HintsNameTemplates ==
  \A type \in HintedTypes : Accepted(type)

\* What the code does: the hints name api-contracts and data-plan, which
\* template rejects, and otherwise accepted types.
HintsButApiAndData ==
  \A type \in HintedTypes \ {"api-contracts", "data-plan"} : Accepted(type)

(***************************************************************************)
(* `pdocs generate`, run again and again into the same output directory,   *)
(* the sources being removed and restored between the runs.                *)
(***************************************************************************)
Sources == {"prd", "specs", "apiDir", "system"}

RegenInit ==
  /\ tree \in {[c \in DOMAIN CleanCliTree |->
                  IF c \in gone THEN Absent ELSE CleanCliTree[c]] : gone \in SUBSET Sources}
  /\ env = DefaultEnv
  /\ claudeMd = "absent" /\ tmplOk = TRUE
  /\ pc = "idle" /\ opts = CliOpts("generate", "") /\ docsDir = NoDir /\ result = ZeroResult
  /\ out = << >> /\ trace = << >> /\ before = NoInstall
  /\ exit = NoExit /\ last = NoLast

\* `pdocs generate`: a new process.
RegenInvoke ==
  /\ pc = "idle"
  /\ pc' = "discover"
  /\ out' = << >> /\ exit' = NoExit
  /\ result' = ZeroResult /\ trace' = << >> /\ before' = NoInstall /\ docsDir' = NoDir
  /\ UNCHANGED <<tree, env, claudeMd, tmplOk, opts, last>>

\* Between two runs a source is deleted, or put back.
EnvRemoveSource ==
  /\ pc = "idle" /\ last.has
  /\ \E c \in Sources : existsSync(tree[c]) /\ tree' = [tree EXCEPT ![c] = Absent]
  /\ UNCHANGED <<env, claudeMd, tmplOk, pc, opts, docsDir, result, out, trace, before, exit, last>>

EnvRestoreSource ==
  /\ pc = "idle" /\ last.has
  /\ \E c \in Sources : ~existsSync(tree[c]) /\ tree' = [tree EXCEPT ![c] = CleanCliTree[c]]
  /\ UNCHANGED <<env, claudeMd, tmplOk, pc, opts, docsDir, result, out, trace, before, exit, last>>

RegenNext ==
  \/ RegenInvoke
  \/ CliDiscover
  \/ CliEnsure
  \/ CliGenerate
  \/ CliFinish
  \/ EnvRemoveSource
  \/ EnvRestoreSource

RegenSpec == RegenInit /\ [][RegenNext]_vars

\* The documents the index links.
Linked == Index.toc

\* C26: the index written by a run links a document exactly when that run
\* generated it; a document left by an earlier run is not linked.
C26_IndexLinksThisRun ==
  Written("README.md") => Linked = result.written \ {"README.md"}

\* What the code does: the index links the documents found in the output
\* directory, whichever run wrote them.
IndexLinksDirectory ==
  Written("README.md") =>
    /\ Linked = tree.generated.files \ {"README.md"}
    /\ result.written \ {"README.md"} \subseteq Linked

\* A second run, after a source was removed: its document is still linked.
LeftoverLinked ==
  /\ Written("README.md") /\ last.has
  /\ \E name \in Linked : name \notin result.written

(***************************************************************************)
(* The links of the feature catalogue into the API reference.              *)
(***************************************************************************)
Links ==
  UNION {{Catalogue.sections[i].links[j] : j \in 1..Len(Catalogue.sections[i].links)} :
           i \in 1..Len(Catalogue.sections)}
Headings ==
  UNION {{ApiRef.sections[i].endpoints[j] : j \in 1..Len(ApiRef.sections[i].endpoints)} :
           i \in 1..Len(ApiRef.sections)}

\* C27: in a run that writes both documents, every API link of features.md has
\* the path and the anchor that api-reference.md gives the same contract file.
C27_LinksReachHeadings ==
  Written("features.md") /\ Written("api-reference.md") =>
    \A l \in Links : \E h \in Headings :
      h.file = l.file /\ h.path = l.path /\ h.anchor = l.anchor

\* What the code does: the two agree for a contract file that matches
\* /paths/<path>/api-contract.yaml, and the catalogue has the empty path and the
\* bare method as anchor for every other file.
LinksAgreeUnderPaths ==
  Written("features.md") /\ Written("api-reference.md") =>
    \A l \in Links : \E h \in Headings :
      /\ h.file = l.file
      /\ IF pathMatch(tree, ContractFilesOfTree[l.file].name) # NoCapture
         THEN h.path = l.path /\ h.anchor = l.anchor
         ELSE l.path = << >> /\ l.anchor = toLowerCase(l.method) \o <<"-">>

(***************************************************************************)
(* The commands over one tree: what check accepts and what generate reads. *)
(***************************************************************************)
\* Documents that also carry the nested `overview` mapping generate reads.
OverviewOf(summary, goal) == Obj(("summary" :> Str(summary)) @@ ("goal" :> Str(goal)))
PrdWithOverview == DataFile(CleanPrd.d @@ ("overview" :> OverviewOf("Foo", "Foo")))
SystemWithOverview == DataFile(CleanSystem.d @@ ("overview" :> OverviewOf("", "baz")))

AgreeTrees ==
  {[CleanCliTree EXCEPT !.prd = p, !.system = sy, !.api = a, !.apiDir = ad] :
     p \in {CleanPrd, PrdWithOverview},
     sy \in {CleanSystem, SystemWithOverview},
     a \in {CleanApi, DataFile(EmptyMap), Absent},
     ad \in {Dir(<<CleanContract>>), Dir(<< >>), Absent}}

AgreeInit ==
  /\ tree \in AgreeTrees /\ env = DefaultEnv
  /\ claudeMd = "absent" /\ tmplOk = TRUE
  /\ pc = "idle" /\ opts = CliOpts("check", "") /\ docsDir = NoDir /\ result = ZeroResult
  /\ out = << >> /\ trace = << >> /\ before = NoInstall
  /\ exit = NoExit /\ last = NoLast

AgreeSpec == AgreeInit /\ [][CliNext]_vars

\* `pdocs check` on the tree reports no error and no warning.
CheckClean ==
  LET c == checkAll(tree, CliOpts("check", ""))
  IN c.result.totalErrors = 0 /\ c.result.totalWarnings = 0

Skips == {"skip-overview", "skip-features", "skip-api", "skip-api-no-files", "skip-architecture"}

\* C28: on a tree check passes without error or warning, generate skips no
\* document, overview.md holds the summary and the goal of the PRD that check
\* validated, architecture.md holds the goal of the system design that check
\* validated, and the API reference is written from the API source check
\* accepted.
C28_CommandsAgree ==
  GenDone /\ CheckClean =>
    /\ \A m \in Skips : ~Printed(m)
    /\ DocNames \subseteq result.written
    /\ result.content["overview.md"].summary = getString(tree.prd.d, "summary")
    /\ result.content["overview.md"].goal = getString(tree.prd.d, "goal")
    /\ result.content["architecture.md"].goal = getString(tree.system.d, "goal")

\* What the code does: generate reads the nested overview mapping of both
\* documents and the api-contracts directory, none of which check looks at.
GenerateReadsOverview ==
  GenDone /\ CheckClean =>
    /\ {"overview.md", "features.md", "architecture.md", "README.md"} \subseteq result.written
    /\ "api-reference.md" \in result.written <=> Len(findYamlFiles(tree.apiDir)) > 0
    /\ result.content["overview.md"].summary =
         (IF "overview" \in DOMAIN tree.prd.d THEN "Foo" ELSE "No summary provided")
    /\ result.content["architecture.md"].goal =
         getNestedString(tree.system.d, "overview", "goal")

(***************************************************************************)
(* The errors of a check run.                                              *)
(***************************************************************************)
StepOfCategory(c) == IF c = "specs" THEN "features" ELSE c
StepsDone == {trace[i] : i \in 1..Len(trace)}
MissingLocations == {c \in Categories : tree[c] = Absent}

\* C29: in a check run whose root exists the error counter is, at every point,
\* the number of categories checked so far whose file or directory is missing:
\* each category check adds one error exactly when its location is missing and
\* nothing else adds one, the counter never exceeds eight, and the run exits 1
\* exactly when at least one of the eight locations is missing.
C29_ErrorsAreMissingLocations ==
  RootExists /\ pc \notin {"idle", "discover", "ensure", "entry"} =>
    /\ result.totalErrors =
         Cardinality({c \in MissingLocations : StepOfCategory(c) \in StepsDone})
    /\ result.totalErrors <= 8
    /\ pc = "done" => (exit = 1 <=> MissingLocations # {})

\* A finished run over a tree with two locations missing and a warning.
C29_Witness ==
  /\ pc = "done" /\ RootExists /\ trace = StepOrder
  /\ Cardinality(MissingLocations) = 2
  /\ result.totalErrors = 2 /\ result.totalWarnings >= 1 /\ exit = 1

(***************************************************************************)
(* The status filter under the default hiding of complete records.         *)
(***************************************************************************)
HidingComplete == ListDone /\ opts.type \in {"features", "stories"} /\ ~opts.showAll

====
